---- MODULE Spec2Model ----
(***************************************************************************)
(* Model of the zkVM CLOB exchange: the order book (matching.rs), the      *)
(* mempool admission (mempool.rs), the balance state (state.rs), the block *)
(* builder (block_builder.rs) and the re-execution program (program/main). *)
(*                                                                         *)
(* Strings are sequences of one-character strings, so that splitting a     *)
(* pair id on '_' is computed and not assumed.  A HashMap is a function    *)
(* whose DOMAIN is the set of keys present.  A BinaryHeap is the set of    *)
(* its entries; pop takes a greatest entry by the entry type's Ord, and    *)
(* any one of them when several compare equal.  Option is a sequence of    *)
(* length at most one.  SHA3-256 is modelled as an injective constructor.  *)
(***************************************************************************)
EXTENDS Integers, Sequences, FiniteSets, TLC

VARIABLES
    state,        \* STATE.state.user_balances: user -> token -> [free, frozen]
    order_books,  \* MEMPOOL.order_books: pair_id -> OrderBook
    traces,       \* MATCHED_TRACES
    now,          \* SystemTime::now() in seconds
    next_id,      \* number of order ids handed out so far
    ret,          \* the last completed call and what it returned
    n_transfers,  \* number of deposit and withdraw calls so far
    builder,      \* the block builder task: pc, pending_traces, block under construction
    current_block_num, \* BlockBuilder.current_block_num
    db,           \* the block store: block_<n> -> Block, latest_block_num
    hist,         \* per built block: the state before and after its settlement
    proof,        \* the last run of the re-execution program
    appended,     \* every trace pushed to MATCHED_TRACES so far, in the order pushed
    locks         \* who holds STATE and MATCHED_TRACES, and where place_order stands

vars == <<state, order_books, traces, now, next_id, ret, n_transfers, builder,
          current_block_num, db, hist, proof, appended, locks>>

----------------------------------------------------------------------------
(* Bounds of the model *)

MaxTime == 1
MaxOrders == 2
MaxBookOrders == 3
MaxBookCancels == 1
MaxDeposits == 2
MaxBlocks == 1

(* u64::MAX, scaled to a 6-bit word so that TLC can represent it *)
U64Max == 63

Users == {"u1", "u2"}
BTC_USDT == <<"B", "_", "U">>
Pairs == {BTC_USDT}
Amounts == {0, 1, 2}
Prices == {1, 2}
DepositAmounts == {1, 2, 4}
BookAmounts == {1, 2}

None == <<>>
Some(x) == <<x>>

Min(a, b) == IF a <= b THEN a ELSE b

----------------------------------------------------------------------------
(* common/src/order.rs *)

RECURSIVE Split(_, _)
(* str.split(sep).collect(): the segments between separators *)
Split(str, sep) ==
    IF \A i \in 1..Len(str) : str[i] # sep
    THEN <<str>>
    ELSE LET i == CHOOSE k \in 1..Len(str) :
                      str[k] = sep /\ \A j \in 1..(k - 1) : str[j] # sep
         IN <<SubSeq(str, 1, i - 1)>> \o Split(SubSeq(str, i + 1, Len(str)), sep)

(* get_pair_tokens: tokens[0], tokens[1]; the caller guards Len >= 2 *)
get_pair_tokens(pair_id) ==
    LET tokens == Split(pair_id, "_")
    IN <<tokens[1], tokens[2]>>

(* Order::new *)
NewOrder(id, user_id, pair_id, amount, price, side, t) ==
    [id |-> id, user_id |-> user_id, pair_id |-> pair_id,
     token_a |-> get_pair_tokens(pair_id)[1],
     token_b |-> get_pair_tokens(pair_id)[2],
     amount |-> amount, filled_amount |-> 0, price |-> price, side |-> side,
     status |-> "Pending", created_at |-> t, updated_at |-> t]

(* Order::set_status *)
set_status(order, status, t) ==
    [order EXCEPT !.status = status, !.updated_at = t]

(* Order::remaining_amount *)
remaining_amount(order) == order.amount - order.filled_amount

(* Order::is_filled *)
is_filled(order) == order.filled_amount >= order.amount

(* A fill that marks the whole order filled whatever amount was matched *)
FillWhole(order, amount) ==
    [order EXCEPT !.filled_amount = order.amount, !.status = "Filled"]

(* Order::fill *)
fill(order, amount) ==
    LET o == [order EXCEPT !.filled_amount = @ + amount]
    IN IF is_filled(o) THEN [o EXCEPT !.status = "Filled"]
       ELSE IF o.filled_amount > 0 THEN [o EXCEPT !.status = "PartiallyFilled"]
       ELSE o

----------------------------------------------------------------------------
(* exchange/src/matching.rs *)

(* u64::cmp as -1 (Less), 0 (Equal), 1 (Greater) *)
Cmp(a, b) == IF a < b THEN -1 ELSE IF a > b THEN 1 ELSE 0

BuyCmpNoTime(self, other) == Cmp(self.price, other.price)

(* impl Ord for BuyOrder: higher price first, then earlier time *)
BuyCmp(self, other) ==
    IF Cmp(self.price, other.price) = 0
    THEN Cmp(other.created_at, self.created_at)
    ELSE Cmp(self.price, other.price)

SellCmpHighFirst(self, other) ==
    IF Cmp(self.price, other.price) = 0
    THEN Cmp(other.created_at, self.created_at)
    ELSE Cmp(self.price, other.price)

(* impl Ord for SellOrder: lower price first, then earlier time *)
SellCmp(self, other) ==
    IF Cmp(other.price, self.price) = 0
    THEN Cmp(other.created_at, self.created_at)
    ELSE Cmp(other.price, self.price)

(* A pop that takes a least entry *)
BuyBottom(heap) == {o \in heap : \A p \in heap : BuyCmp(o, p) <= 0}

(* BinaryHeap::pop: the entries no other entry is greater than *)
BuyTop(heap) == {o \in heap : \A p \in heap : BuyCmp(p, o) <= 0}
SellTop(heap) == {o \in heap : \A p \in heap : SellCmp(p, o) <= 0}

(* OrderBook::new *)
NewBook == [buy_orders |-> {}, sell_orders |-> {}, order_map |-> << >>]

MapInsert(m, k, v) == [x \in DOMAIN m \cup {k} |-> IF x = k THEN v ELSE m[x]]

NeverCancelled(order_map, order_id) == FALSE

(* OrderBook::is_order_cancelled *)
is_order_cancelled(order_map, order_id) ==
    IF order_id \in DOMAIN order_map
    THEN order_map[order_id].status = "Cancelled"
    ELSE TRUE

(* A trace that snapshots the two orders after they were filled *)
MatchedTraceAfterFill(buy, sell, q) ==
    [buy_order |-> fill(buy, q), sell_order |-> fill(sell, q), matched_amount |-> q]

MatchedTrace(buy, sell, q) ==
    [buy_order |-> buy, sell_order |-> sell, matched_amount |-> q]

RECURSIVE MatchBuyLoop(_, _, _, _, _)
(* The while loop of match_buy_order.  The result is the set of outcomes     *)
(* [sell_orders, order_map, order, traces], one per way the heap may order   *)
(* entries that compare equal.                                               *)
MatchBuyLoop(sells, order_map, buy_order, updated_sells, trs) ==
    IF sells = {}
    THEN {[heap |-> updated_sells, order_map |-> order_map,
           order |-> buy_order, traces |-> trs]}
    ELSE UNION {
        LET rest == sells \ {sell_order} IN
        IF is_order_cancelled(order_map, sell_order.id)
        THEN MatchBuyLoop(rest, order_map, buy_order, updated_sells, trs)
        ELSE IF sell_order.price > buy_order.price
        THEN {[heap |-> sells \cup updated_sells, order_map |-> order_map,
               order |-> buy_order, traces |-> trs]}
        ELSE
          LET trade_quantity == Min(remaining_amount(buy_order),
                                    remaining_amount(sell_order))
              trs2 == Append(trs, MatchedTrace(buy_order, sell_order, trade_quantity))
              buy2 == fill(buy_order, trade_quantity)
              sell2 == fill(sell_order, trade_quantity)
              map2 == MapInsert(order_map, sell2.id, sell2)
              upd2 == IF remaining_amount(sell2) > 0
                      THEN updated_sells \cup {sell2} ELSE updated_sells
          IN IF remaining_amount(buy2) = 0
             THEN {[heap |-> rest \cup upd2, order_map |-> map2,
                    order |-> buy2, traces |-> trs2]}
             ELSE MatchBuyLoop(rest, map2, buy2, upd2, trs2)
        : sell_order \in SellTop(sells)}

RECURSIVE MatchSellLoop(_, _, _, _, _)
(* The while loop of match_sell_order *)
MatchSellLoop(buys, order_map, sell_order, updated_buys, trs) ==
    IF buys = {}
    THEN {[heap |-> updated_buys, order_map |-> order_map,
           order |-> sell_order, traces |-> trs]}
    ELSE UNION {
        LET rest == buys \ {buy_order} IN
        IF is_order_cancelled(order_map, buy_order.id)
        THEN MatchSellLoop(rest, order_map, sell_order, updated_buys, trs)
        ELSE IF buy_order.price < sell_order.price
        THEN {[heap |-> buys \cup updated_buys, order_map |-> order_map,
               order |-> sell_order, traces |-> trs]}
        ELSE
          LET trade_quantity == Min(remaining_amount(sell_order),
                                    remaining_amount(buy_order))
              trs2 == Append(trs, MatchedTrace(buy_order, sell_order, trade_quantity))
              sell2 == fill(sell_order, trade_quantity)
              buy2 == fill(buy_order, trade_quantity)
              map2 == MapInsert(order_map, buy2.id, buy2)
              upd2 == IF remaining_amount(buy2) > 0
                      THEN updated_buys \cup {buy2} ELSE updated_buys
          IN IF remaining_amount(sell2) = 0
             THEN {[heap |-> rest \cup upd2, order_map |-> map2,
                    order |-> sell2, traces |-> trs2]}
             ELSE MatchSellLoop(rest, map2, sell2, upd2, trs2)
        : buy_order \in BuyTop(buys)}

(* OrderBook::add_order: the set of outcomes [book, traces] *)
add_order(book, order, trs) ==
    IF order.side
    THEN {[book |->
             IF remaining_amount(m.order) > 0
             THEN [buy_orders |-> book.buy_orders \cup {m.order},
                   sell_orders |-> m.heap,
                   order_map |-> MapInsert(m.order_map, m.order.id, m.order)]
             ELSE [buy_orders |-> book.buy_orders,
                   sell_orders |-> m.heap,
                   order_map |-> m.order_map],
           traces |-> m.traces]
          : m \in MatchBuyLoop(book.sell_orders, book.order_map, order, {}, trs)}
    ELSE {[book |->
             IF remaining_amount(m.order) > 0
             THEN [buy_orders |-> m.heap,
                   sell_orders |-> book.sell_orders \cup {m.order},
                   order_map |-> MapInsert(m.order_map, m.order.id, m.order)]
             ELSE [buy_orders |-> m.heap,
                   sell_orders |-> book.sell_orders,
                   order_map |-> m.order_map],
           traces |-> m.traces]
          : m \in MatchSellLoop(book.buy_orders, book.order_map, order, {}, trs)}

(* A cancel that rewrites the order whatever its status was: a new stamp,  *)
(* the filled amount reset                                                *)
BookCancelRestamps(book, order_id, t) ==
    IF order_id \notin DOMAIN book.order_map
    THEN [book |-> book, res |-> None]
    ELSE LET cancelled == [set_status(book.order_map[order_id], "Cancelled", t)
                              EXCEPT !.filled_amount = 0]
         IN [book |-> [book EXCEPT !.order_map[order_id] = cancelled],
             res |-> Some(cancelled)]

(* OrderBook::cancel_order: [book, res], res the Option<Order> returned *)
book_cancel_order(book, order_id, t) ==
    IF order_id \notin DOMAIN book.order_map
    THEN [book |-> book, res |-> None]
    ELSE IF book.order_map[order_id].status = "Cancelled"
    THEN [book |-> book, res |-> Some(book.order_map[order_id])]
    ELSE LET cancelled == set_status(book.order_map[order_id], "Cancelled", t)
         IN [book |-> [book EXCEPT !.order_map[order_id] = cancelled],
             res |-> Some(cancelled)]

(* OrderBook::get_order *)
book_get_order(book, order_id) ==
    IF order_id \in DOMAIN book.order_map
    THEN Some(book.order_map[order_id]) ELSE None

----------------------------------------------------------------------------
(* common/src/state.rs *)

NoBalances == << >>

Entry(st, user_id, token_id) ==
    IF user_id \in DOMAIN st /\ token_id \in DOMAIN st[user_id]
    THEN st[user_id][token_id]
    ELSE [free |-> 0, frozen |-> 0]

(* State::get_user_balance *)
get_user_balance(st, user_id, token_id) == Entry(st, user_id, token_id).free

(* user_balances.entry(user).or_insert_with(Account::new).balances.insert(token, e) *)
SetEntry(st, user_id, token_id, e) ==
    LET account == IF user_id \in DOMAIN st THEN st[user_id] ELSE << >>
    IN MapInsert(st, user_id, MapInsert(account, token_id, e))

(* State::set_user_balance *)
set_user_balance(st, user_id, token_id, balance) ==
    SetEntry(st, user_id, token_id,
             [Entry(st, user_id, token_id) EXCEPT !.free = balance])

(* u64::saturating_add *)
saturating_add(a, b) == IF a + b > U64Max THEN U64Max ELSE a + b

(* u64::wrapping_mul *)
WrappingMul(a, b) == Some((a * b) % (U64Max + 1))

(* u64::checked_mul, u64::checked_add *)
checked_mul(a, b) == IF a * b > U64Max THEN None ELSE Some(a * b)
checked_add(a, b) == IF a + b > U64Max THEN None ELSE Some(a + b)

(* State::add_user_balance *)
add_user_balance(st, user_id, token_id, amount) ==
    set_user_balance(st, user_id, token_id,
        saturating_add(get_user_balance(st, user_id, token_id), amount))

SubAlways(st, user_id, token_id, amount) ==
    LET current_balance == get_user_balance(st, user_id, token_id)
    IN [state |-> set_user_balance(st, user_id, token_id,
                     IF current_balance >= amount THEN current_balance - amount ELSE 0),
        ok |-> TRUE]

(* A subtraction that falls back on the frozen funds when the free ones do *)
(* not cover the amount                                                    *)
SubFromFrozen(st, user_id, token_id, amount) ==
    LET e == Entry(st, user_id, token_id)
    IN IF e.free >= amount
       THEN [state |-> set_user_balance(st, user_id, token_id, e.free - amount), ok |-> TRUE]
       ELSE IF e.free + e.frozen >= amount
       THEN [state |-> SetEntry(st, user_id, token_id,
                                [free |-> 0, frozen |-> e.frozen - (amount - e.free)]),
             ok |-> TRUE]
       ELSE [state |-> st, ok |-> FALSE]

(* State::sub_user_balance: [state, ok] *)
sub_user_balance(st, user_id, token_id, amount) ==
    LET current_balance == get_user_balance(st, user_id, token_id)
    IN IF current_balance >= amount
       THEN [state |-> set_user_balance(st, user_id, token_id, current_balance - amount),
             ok |-> TRUE]
       ELSE [state |-> st, ok |-> FALSE]

(* State::get_frozen *)
get_frozen(st, user_id, token_id) == Entry(st, user_id, token_id).frozen

(* State::freeze: moves amount from free to frozen; fails, changing nothing, *)
(* when free < amount                                                        *)
freeze(st, user_id, token_id, amount) ==
    LET e == Entry(st, user_id, token_id)
    IN IF e.free >= amount
       THEN SetEntry(st, user_id, token_id,
                     [free |-> e.free - amount,
                      frozen |-> saturating_add(e.frozen, amount)])
       ELSE st

(* State::unfreeze: moves amount from frozen to free; when frozen < amount   *)
(* the frozen balance is clamped to 0 and what was frozen is what moves      *)
unfreeze(st, user_id, token_id, amount) ==
    LET e == Entry(st, user_id, token_id)
        moved == Min(amount, e.frozen)
    IN SetEntry(st, user_id, token_id,
                [free |-> saturating_add(e.free, moved),
                 frozen |-> e.frozen - moved])

(* SHA3-256 over a byte string, as an injective constructor *)
Sha3(bytes) == [sha3 |-> bytes]

RECURSIVE SortedTokens(_)
(* sorted_balances.sort_by_key(token_id): the tokens in lexicographic order; *)
(* the tokens of the model are one character long                            *)
SortedTokens(tokens) ==
    IF tokens = {} THEN << >>
    ELSE LET Rank(t) == CASE t[1] = "B" -> 1 [] t[1] = "U" -> 2 [] OTHER -> 3
             first == CHOOSE t \in tokens : \A x \in tokens : Rank(t) <= Rank(x)
         IN <<first>> \o SortedTokens(tokens \ {first})

(* calculate_user_hash: user id, then per token its id and balances *)
calculate_user_hash(user_id, balances) ==
    LET toks == SortedTokens(DOMAIN balances)
    IN Sha3([user |-> user_id,
             balances |-> [i \in 1..Len(toks) |->
                  <<toks[i], balances[toks[i]].free, balances[toks[i]].frozen>>]])

RECURSIVE MerkleLevel(_)
(* one level of the tree: pair the nodes, the last one with itself when odd *)
MerkleLevel(nodes) ==
    IF Len(nodes) = 0 THEN << >>
    ELSE IF Len(nodes) = 1 THEN <<Sha3([left |-> nodes[1], right |-> nodes[1]])>>
    ELSE <<Sha3([left |-> nodes[1], right |-> nodes[2]])>>
         \o MerkleLevel(SubSeq(nodes, 3, Len(nodes)))

RECURSIVE MerkleRoot(_)
MerkleRoot(nodes) ==
    IF Len(nodes) = 1 THEN nodes[1] ELSE MerkleRoot(MerkleLevel(nodes))

(* The orders in which a HashMap over the users may be iterated *)
UserOrders == {ord \in [1..Cardinality(Users) -> Users] :
                  \A u \in Users : \E i \in DOMAIN ord : ord[i] = u}

RECURSIVE Present(_, _)
Present(ord, st) ==
    IF Len(ord) = 0 THEN << >>
    ELSE (IF ord[1] \in DOMAIN st THEN <<ord[1]>> ELSE << >>) \o Present(Tail(ord), st)

(* State::calculate_state_root (gen_state_root), the users iterated in the  *)
(* order ord: Option<[u8; 32]>                                              *)
calculate_state_root(st, ord) ==
    IF DOMAIN st = {} THEN None
    ELSE LET us == Present(ord, st)
             leaf_hashes == [i \in 1..Len(us) |-> calculate_user_hash(us[i], st[us[i]])]
             even == IF Len(leaf_hashes) % 2 = 1
                     THEN Append(leaf_hashes, leaf_hashes[Len(leaf_hashes)])
                     ELSE leaf_hashes
         IN Some(MerkleRoot(even))

----------------------------------------------------------------------------
(* execution/src/exchange/mempool.rs *)

GetBook(books, pair_id) ==
    IF pair_id \in DOMAIN books THEN books[pair_id] ELSE NewBook

Rejected(st, books, trs, err) ==
    {[state |-> st, order_books |-> books, traces |-> trs, res |-> err]}

(* The tail of place_order: entry(pair).or_insert_with(OrderBook::new), add_order *)
Admit(st, books, trs, order) ==
    {[state |-> st,
      order_books |-> MapInsert(books, order.pair_id, out.book),
      traces |-> out.traces,
      res |-> "Ok"]
     : out \in add_order(GetBook(books, order.pair_id), order, trs)}

PlaceOrderFreezeFirst(st, books, trs, order) ==
    IF order.side
    THEN LET frozen_balance == get_frozen(st, order.user_id, order.token_b)
             order_cost == checked_mul(order.amount, order.price)
         IN IF order_cost = None THEN Rejected(st, books, trs, "ErrOverflow")
            ELSE IF checked_add(order_cost[1], frozen_balance) = None
            THEN Rejected(st, books, trs, "ErrOverflow")
            ELSE IF get_user_balance(st, order.user_id, order.token_b)
                      < order_cost[1] + frozen_balance
            THEN Rejected(freeze(st, order.user_id, order.token_b,
                                 get_user_balance(st, order.user_id, order.token_b)),
                          books, trs, "ErrInsufficientQuote")
            ELSE Admit(freeze(st, order.user_id, order.token_b,
                              order_cost[1] + frozen_balance), books, trs, order)
    ELSE IF get_user_balance(st, order.user_id, order.token_a) < order.amount
         THEN Rejected(freeze(st, order.user_id, order.token_a,
                              get_user_balance(st, order.user_id, order.token_a)),
                       books, trs, "ErrInsufficientBase")
         ELSE Admit(freeze(st, order.user_id, order.token_a, order.amount),
                    books, trs, order)

(* Mempool::place_order: the set of outcomes [state, order_books, traces, res] *)
place_order(st, books, trs, order) ==
    IF order.side
    THEN LET user_balance == get_user_balance(st, order.user_id, order.token_b)
             frozen_balance == get_frozen(st, order.user_id, order.token_b)
             order_cost == checked_mul(order.amount, order.price)
             required_balance ==
                 IF order_cost = None THEN None
                 ELSE checked_add(order_cost[1], frozen_balance)
         IN IF order_cost = None THEN Rejected(st, books, trs, "ErrOverflow")
            ELSE IF required_balance = None THEN Rejected(st, books, trs, "ErrOverflow")
            ELSE IF user_balance < required_balance[1]
            THEN Rejected(st, books, trs, "ErrInsufficientQuote")
            ELSE Admit(freeze(st, order.user_id, order.token_b, required_balance[1]),
                       books, trs, order)
    ELSE LET user_balance == get_user_balance(st, order.user_id, order.token_a)
         IN IF user_balance < order.amount
            THEN Rejected(st, books, trs, "ErrInsufficientBase")
            ELSE Admit(freeze(st, order.user_id, order.token_a, order.amount),
                       books, trs, order)

(* A cancel that does not tell a missing pair from a missing order *)
CancelOneError(st, books, pair_id, order_id, t) ==
    LET c == book_cancel_order(GetBook(books, pair_id), order_id, t)
    IN IF c.res = None
       THEN [state |-> st, order_books |-> books, res |-> "ErrOrderNotFound", order |-> None]
       ELSE [state |-> st, order_books |-> [books EXCEPT ![pair_id] = c.book],
             res |-> "Ok", order |-> c.res]

(* Mempool::cancel_order: [state, order_books, res, order] *)
cancel_order(st, books, pair_id, order_id, t) ==
    IF pair_id \notin DOMAIN books
    THEN [state |-> st, order_books |-> books, res |-> "ErrPairNotFound", order |-> None]
    ELSE LET c == book_cancel_order(books[pair_id], order_id, t)
         IN IF c.res = None
            THEN [state |-> st, order_books |-> books,
                  res |-> "ErrOrderNotFound", order |-> None]
            ELSE LET cancelled_order == c.res[1]
                 IN [state |->
                        IF cancelled_order.side
                        THEN unfreeze(st, cancelled_order.user_id, cancelled_order.token_b,
                                      remaining_amount(cancelled_order))
                        ELSE unfreeze(st, cancelled_order.user_id, cancelled_order.token_a,
                                      remaining_amount(cancelled_order)),
                     order_books |-> [books EXCEPT ![pair_id] = c.book],
                     res |-> "Ok", order |-> c.res]

(* Mempool::get_order *)
get_order(books, pair_id, order_id) ==
    IF pair_id \in DOMAIN books THEN book_get_order(books[pair_id], order_id) ELSE None

----------------------------------------------------------------------------
(* The calls.  ret records the last completed call: its name, the order id *)
(* it was about, the result and the order returned, if any.                *)

Ret(op, id, res, order) == [op |-> op, id |-> id, res |-> res, order |-> order]

Idle == [pc |-> "poll", pending |-> << >>, block |-> None]

(* No lock is held, no place_order and no cancel_order is under way *)
NoLocks ==
    [state |-> {}, traces |-> {}, mempool |-> {}, block_num |-> {},
     handler |-> [pc |-> "idle", order |-> None],
     canceller |-> [pc |-> "idle", call |-> None]]
EmptyDb == [blocks |-> << >>, latest |-> None]
NoProof == [ran |-> FALSE]

(* SystemTime::now() advances *)
Tick ==
    /\ now < MaxTime
    /\ now' = now + 1
    /\ UNCHANGED <<state, order_books, traces, next_id, ret, n_transfers, builder,
                   current_block_num, db, hist, proof, appended, locks>>

(* OrderBook::add_order called on the book of BTC_USDT with a fresh order *)
BookAddOrder(user_id, amount, price, side) ==
    /\ next_id < MaxBookOrders
    /\ LET order == NewOrder(next_id + 1, user_id, BTC_USDT, amount, price, side, now)
       IN \E out \in add_order(order_books[BTC_USDT], order, traces) :
            /\ order_books' = [order_books EXCEPT ![BTC_USDT] = out.book]
            /\ traces' = out.traces
            /\ appended' = appended \o SubSeq(out.traces, Len(traces) + 1, Len(out.traces))
    /\ next_id' = next_id + 1
    /\ UNCHANGED <<state, now, ret, n_transfers, builder, current_block_num, db, hist, proof,
                   locks>>

(* OrderBook::cancel_order called on the book of BTC_USDT *)
BookCancelOrder(order_id) ==
    /\ LET c == book_cancel_order(order_books[BTC_USDT], order_id, now)
       IN /\ c.res # None
          /\ Cardinality({i \in DOMAIN order_books[BTC_USDT].order_map :
                 order_books[BTC_USDT].order_map[i].status = "Cancelled"}) < MaxBookCancels
          /\ order_books' = [order_books EXCEPT ![BTC_USDT] = c.book]
    /\ UNCHANGED <<state, traces, now, next_id, ret, n_transfers, builder, current_block_num,
                   db, hist, proof, appended, locks>>

BookInit ==
    /\ state = NoBalances
    /\ order_books = (BTC_USDT :> NewBook)
    /\ traces = << >>
    /\ now = 0
    /\ next_id = 0
    /\ ret = Ret("init", 0, "Ok", None)
    /\ n_transfers = 0
    /\ builder = Idle
    /\ current_block_num = 0
    /\ db = EmptyDb
    /\ hist = << >>
    /\ proof = NoProof
    /\ appended = << >>
    /\ locks = NoLocks

BookNext ==
    \/ Tick
    \/ \E amount \in BookAmounts, price \in Prices, side \in BOOLEAN :
          BookAddOrder("u1", amount, price, side)
    \/ \E order_id \in 1..MaxBookOrders : BookCancelOrder(order_id)

(* The order book alone, driven through add_order and cancel_order *)
SpecBook == BookInit /\ [][BookNext]_vars

----------------------------------------------------------------------------
(* execution/src/block/block_builder.rs *)

MAX_TXN_SIZE == 100

(* serde_json::to_vec: an injective encoding of the value *)
Json(v) == [json |-> v]

(* BlockBuilder::calculate_txns_root *)
calculate_txns_root(txns) == Sha3([txns |-> [i \in 1..Len(txns) |-> Json(txns[i])]])

(* The body of create_block's loop over the traces: six calls, each on the *)
(* state the call before it left                                          *)
SettleTrace(st, trace) ==
    LET tokens == Split(trace.buy_order.pair_id, "_")
        base_token == tokens[1]
        quote_token == tokens[2]
        buyer == trace.buy_order.user_id
        seller == trace.sell_order.user_id
        amount == trace.matched_amount
    IN CHOOSE s6 \in
         {unfreeze(s5, seller, base_token, amount) : s5 \in
         {unfreeze(s4, buyer, quote_token, amount) : s4 \in
         {add_user_balance(s3, seller, quote_token, amount) : s3 \in
         {sub_user_balance(s2, buyer, quote_token, amount).state : s2 \in
         {sub_user_balance(s1, seller, base_token, amount).state : s1 \in
         {add_user_balance(st, buyer, base_token, amount)}}}}}} : TRUE

RECURSIVE SettleAll(_, _)
(* create_block: for trace in &txns, under one STATE write lock; the loop  *)
(* is folded half by half, the state after the first half being a value   *)
(* before the second half starts                                          *)
SettleAll(st, txns) ==
    IF txns = << >> THEN st
    ELSE IF Len(txns) = 1 THEN SettleTrace(st, txns[1])
    ELSE LET half == Len(txns) \div 2
         IN CHOOSE after \in {SettleAll(done, SubSeq(txns, half + 1, Len(txns))) :
                                 done \in {SettleAll(st, SubSeq(txns, 1, half))}} : TRUE

(* common/src/block.rs *)
Block(block_num, txns, txns_root, state_root) ==
    [block_num |-> block_num, txns |-> txns,
     txns_root |-> txns_root, state_root |-> state_root]

----------------------------------------------------------------------------
(* prover/program/src/main.rs *)

(* [0u8; 32] *)
Zero32 == [zero |-> 32]

(* Option::unwrap_or_default *)
unwrap_or_default(opt) == IF opt = None THEN Zero32 ELSE opt[1]

(* The balance changes the program applies per trace *)
ReplayTrace(st, trace) ==
    LET tokens == Split(trace.buy_order.pair_id, "_")
        base_token == tokens[1]
        quote_token == tokens[2]
        s1 == add_user_balance(st, trace.buy_order.user_id, base_token,
                               trace.matched_amount)
        s2 == sub_user_balance(s1, trace.sell_order.user_id, base_token,
                               trace.matched_amount).state
        s3 == sub_user_balance(s2, trace.buy_order.user_id, quote_token,
                               trace.matched_amount).state
    IN add_user_balance(s3, trace.sell_order.user_id, quote_token,
                        trace.matched_amount)

RECURSIVE ReplayTraces(_, _)
ReplayTraces(st, txns) ==
    IF txns = << >> THEN st
    ELSE ReplayTraces(ReplayTrace(st, Head(txns)), Tail(txns))

(* calculate_da_hash, calculate_pi_hash *)
calculate_da_hash(txns_roots) == Sha3([da |-> txns_roots])
calculate_pi_hash(prev_state_root, post_state_root, da_hash) ==
    Sha3([prev |-> prev_state_root, post |-> post_state_root, da |-> da_hash])

RECURSIVE ReplayBlocks(_, _, _, _)
(* The loop over the blocks: [state, txns_roots, failed], failed naming the *)
(* first assertion that does not hold ("" when all hold)                    *)
ReplayBlocks(st, blocks, txns_roots, ord) ==
    IF blocks = << >>
    THEN [state |-> st, txns_roots |-> txns_roots, failed |-> ""]
    ELSE LET block == Head(blocks)
             st2 == ReplayTraces(st, block.txns)
             block_post_state_root == unwrap_or_default(calculate_state_root(st2, ord))
             txns_root == calculate_txns_root(block.txns)
         IN IF block_post_state_root # unwrap_or_default(block.state_root)
            THEN [state |-> st2, txns_roots |-> txns_roots,
                  failed |-> "block_post_state_root == block.state_root"]
            ELSE IF txns_root # unwrap_or_default(block.txns_root)
            THEN [state |-> st2, txns_roots |-> txns_roots,
                  failed |-> "txns_root == block.txns_root"]
            ELSE ReplayBlocks(st2, Tail(blocks), Append(txns_roots, txns_root), ord)

(* main on ZkVMInput{blocks, state}, blocks non-empty, the users of the    *)
(* state iterated in the order ord: [failed, committed], committed the      *)
(* value given to sp1_zkvm::io::commit when no assertion fails              *)
ProverMain(st, blocks, ord) ==
    LET prev_state_root == unwrap_or_default(blocks[1].state_root)
        post_state_root == unwrap_or_default(blocks[Len(blocks)].state_root)
        lastest_state_root == unwrap_or_default(calculate_state_root(st, ord))
    IN IF prev_state_root # lastest_state_root
       THEN [failed |-> "prev_state_root == lastest_state_root", committed |-> None]
       ELSE LET r == ReplayBlocks(st, blocks, << >>, ord)
            IN [failed |-> r.failed,
                committed |->
                   IF r.failed = ""
                   THEN Some(calculate_pi_hash(prev_state_root, post_state_root,
                                               calculate_da_hash(r.txns_roots)))
                   ELSE None]

----------------------------------------------------------------------------
(* The exchange: the handlers of server.rs and the builder task.  A handler *)
(* is one step: place_order holds the MEMPOOL and STATE write locks from    *)
(* its balance check to the end of add_order, and cancel_order's unfreeze   *)
(* commutes with whatever the builder does between its two parts.  The      *)
(* builder takes one lock per step.                                         *)

(* handle_deposit *)
Deposit(user_id, token, amount) ==
    /\ state' = add_user_balance(state, user_id, token, amount)
    /\ n_transfers' = n_transfers + 1
    /\ UNCHANGED <<order_books, traces, now, next_id, ret, builder,
                   current_block_num, db, hist, proof, appended, locks>>

(* handle_withdraw *)
Withdraw(user_id, token, amount) ==
    /\ state' = sub_user_balance(state, user_id, token, amount).state
    /\ n_transfers' = n_transfers + 1
    /\ UNCHANGED <<order_books, traces, now, next_id, ret, builder,
                   current_block_num, db, hist, proof, appended, locks>>

(* handle_place_order *)
PlaceOrder(user_id, pair_id, amount, price, side) ==
    /\ IF Len(Split(pair_id, "_")) < 2
       THEN (* Order::new panics in get_pair_tokens on tokens[1]: the handler *)
            (* unwinds, the MEMPOOL guard is dropped, no response is sent     *)
            /\ ret' = Ret("place_order", next_id + 1, "Panic", None)
            /\ UNCHANGED <<state, order_books, traces, appended>>
       ELSE LET order == NewOrder(next_id + 1, user_id, pair_id, amount, price, side, now)
            IN \E out \in place_order(state, order_books, traces, order) :
                 /\ state' = out.state
                 /\ order_books' = out.order_books
                 /\ traces' = out.traces
                 /\ appended' = appended \o SubSeq(out.traces, Len(traces) + 1,
                                                    Len(out.traces))
                 /\ ret' = Ret("place_order", next_id + 1, out.res, None)
    /\ next_id' = next_id + 1
    /\ UNCHANGED <<now, n_transfers, builder, current_block_num, db, hist, proof, locks>>

(* handle_cancel_order *)
CancelOrder(pair_id, order_id) ==
    /\ LET c == cancel_order(state, order_books, pair_id, order_id, now)
       IN /\ state' = c.state
          /\ order_books' = c.order_books
          /\ ret' = Ret("cancel_order", order_id, c.res, c.order)
    /\ UNCHANGED <<traces, now, next_id, n_transfers, builder, current_block_num,
                   db, hist, proof, appended, locks>>

(* A builder step that keeps only the traces of its own drain *)
BuilderPollReplace ==
    /\ builder.pc = "poll"
    /\ \E time_elapsed \in BOOLEAN :
         LET pending_traces == traces
             txn_count_reached == Len(pending_traces) >= MAX_TXN_SIZE
             should_generate_block ==
                 (time_elapsed \/ txn_count_reached) /\ pending_traces # << >>
         IN builder' = [builder EXCEPT
                           !.pending = pending_traces,
                           !.pc = IF should_generate_block THEN "create" ELSE "poll"]
    /\ traces' = << >>
    /\ UNCHANGED <<state, order_books, now, next_id, ret, n_transfers,
                   current_block_num, db, hist, proof, appended, locks>>

(* A builder step that decides on the elapsed time alone *)
BuilderPollNoCount ==
    /\ builder.pc = "poll"
    /\ \E time_elapsed \in BOOLEAN :
         LET pending_traces == builder.pending \o traces
         IN builder' = [builder EXCEPT
                           !.pending = pending_traces,
                           !.pc = IF time_elapsed /\ pending_traces # << >>
                                  THEN "create" ELSE "poll"]
    /\ traces' = << >>
    /\ UNCHANGED <<state, order_books, now, next_id, ret, n_transfers,
                   current_block_num, db, hist, proof, appended, locks>>

(* A builder step that drains MATCHED_TRACES without clearing it *)
BuilderPollNoClear ==
    /\ builder.pc = "poll"
    /\ \E time_elapsed \in BOOLEAN :
         LET pending_traces == builder.pending \o traces
         IN builder' = [builder EXCEPT
                           !.pending = pending_traces,
                           !.pc = IF time_elapsed /\ pending_traces # << >>
                                  THEN "create" ELSE "poll"]
    /\ UNCHANGED <<state, order_books, traces, now, next_id, ret, n_transfers,
                   current_block_num, db, hist, proof, appended, locks>>

(* start_block_generation: drain MATCHED_TRACES into pending_traces and    *)
(* decide whether to build; the time elapsed since the last block is free  *)
BuilderPoll ==
    /\ builder.pc = "poll"
    /\ \E time_elapsed \in BOOLEAN :
         LET pending_traces == builder.pending \o traces
             txn_count_reached == Len(pending_traces) >= MAX_TXN_SIZE
             should_generate_block ==
                 (time_elapsed \/ txn_count_reached) /\ pending_traces # << >>
         IN builder' = [builder EXCEPT
                           !.pending = pending_traces,
                           !.pc = IF should_generate_block THEN "create" ELSE "poll"]
    /\ traces' = << >>
    /\ UNCHANGED <<state, order_books, now, next_id, ret, n_transfers,
                   current_block_num, db, hist, proof, appended, locks>>

(* create_block: the block number, under the current_block_num write lock *)
BuilderNumber ==
    /\ builder.pc = "create"
    /\ current_block_num' = current_block_num + 1
    /\ builder' = [builder EXCEPT !.pc = "settle"]
    /\ UNCHANGED <<state, order_books, traces, now, next_id, ret, n_transfers,
                   db, hist, proof, appended, locks>>

(* create_block: the settlement of the traces, under the STATE write lock *)
BuilderSettle ==
    /\ builder.pc = "settle"
    /\ state' = SettleAll(state, builder.pending)
    /\ hist' = MapInsert(hist, current_block_num, [pre |-> state, post |-> state'])
    /\ builder' = [builder EXCEPT !.pc = "root"]
    /\ UNCHANGED <<order_books, traces, now, next_id, ret, n_transfers,
                   current_block_num, db, proof, appended, locks>>

(* create_block: the roots, the state root under a STATE read lock *)
BuilderRoot ==
    /\ builder.pc = "root"
    /\ \E ord \in UserOrders :
         builder' = [builder EXCEPT
            !.pc = "save",
            !.block = Some(Block(current_block_num, builder.pending,
                                 Some(calculate_txns_root(builder.pending)),
                                 calculate_state_root(state, ord)))]
    /\ UNCHANGED <<state, order_books, traces, now, next_id, ret, n_transfers,
                   current_block_num, db, hist, proof, appended, locks>>

(* save_block, then pending_traces.clear() *)
BuilderSave ==
    /\ builder.pc = "save"
    /\ LET block == builder.block[1]
       IN db' = [blocks |-> MapInsert(db.blocks, block.block_num, block),
                 latest |-> Some(block.block_num)]
    /\ builder' = Idle
    /\ UNCHANGED <<state, order_books, traces, now, next_id, ret, n_transfers,
                   current_block_num, hist, proof, appended, locks>>

(* One run of the re-execution program, on the blocks lo..hi of the store   *)
(* and the state captured before block lo was settled                       *)
Prove(lo, hi) ==
    /\ ~proof.ran
    /\ lo <= hi
    /\ lo \in DOMAIN db.blocks
    /\ hi \in DOMAIN db.blocks
    /\ \E ord \in UserOrders :
         LET blocks == [i \in 1..(hi - lo + 1) |-> db.blocks[lo + i - 1]]
             r == ProverMain(hist[lo].pre, blocks, ord)
         IN proof' = [ran |-> TRUE, lo |-> lo, hi |-> hi,
                      failed |-> r.failed, committed |-> r.committed]
    /\ UNCHANGED <<state, order_books, traces, now, next_id, ret, n_transfers,
                   builder, current_block_num, db, hist, appended, locks>>

Tokens == {get_pair_tokens(p)[1] : p \in Pairs} \cup {get_pair_tokens(p)[2] : p \in Pairs}

Init ==
    /\ state = NoBalances
    /\ order_books = << >>
    /\ traces = << >>
    /\ now = 0
    /\ next_id = 0
    /\ ret = Ret("init", 0, "Ok", None)
    /\ n_transfers = 0
    /\ builder = Idle
    /\ current_block_num = 0
    /\ db = EmptyDb
    /\ hist = << >>
    /\ proof = NoProof
    /\ appended = << >>
    /\ locks = NoLocks

Next ==
    \/ /\ n_transfers < MaxDeposits
       /\ \E user_id \in Users, token \in Tokens, amount \in DepositAmounts :
             Deposit(user_id, token, amount)
    \/ /\ n_transfers < MaxDeposits
       /\ \E user_id \in Users, token \in Tokens, amount \in DepositAmounts :
             Withdraw(user_id, token, amount)
    \/ /\ next_id < MaxOrders
       /\ \E user_id \in Users, pair_id \in Pairs, amount \in Amounts,
             price \in Prices, side \in BOOLEAN :
             PlaceOrder(user_id, pair_id, amount, price, side)
    \/ \E pair_id \in Pairs, order_id \in 1..MaxOrders : CancelOrder(pair_id, order_id)
    \/ current_block_num < MaxBlocks /\ BuilderPoll
    \/ BuilderNumber
    \/ BuilderSettle
    \/ BuilderRoot
    \/ BuilderSave

(* The exchange, within one second of the clock that stamps the orders *)
Spec == Init /\ [][Next]_vars

ProverNext ==
    \/ ~proof.ran /\ Next
    \/ \E lo, hi \in 1..MaxBlocks : Prove(lo, hi)

(* The exchange up to one run of the re-execution program on its blocks *)
SpecProver == Init /\ [][ProverNext]_vars

----------------------------------------------------------------------------
(* The builder over several blocks, with save_block failing and with the   *)
(* process restarting.  The orders are unit orders of two funded users, so *)
(* that every second order makes a trace.                                  *)

MaxBuilderOrders == 4
MaxBuilderDeposits == 4
MaxBuilderBlocks == 2

(* The task of start_block_generation has returned *)
Stopped == [pc |-> "stopped", pending |-> << >>, block |-> None]

(* The call of save_block that returns Err: db.insert of the block (or its *)
(* serialisation), db.insert of latest_block_num, or db.flush              *)
SaveErrors == {"insert_block", "insert_latest", "flush"}

(* A save_block that advances latest_block_num before it inserts the block *)
SaveFailPointerFirst(failed_call) ==
    /\ builder.pc = "save"
    /\ LET block == builder.block[1]
           inserted == MapInsert(db.blocks, block.block_num, block)
       IN db' = CASE failed_call = "insert_block" -> db
                  [] failed_call = "insert_latest" ->
                        [db EXCEPT !.latest = Some(block.block_num)]
                  [] OTHER -> [blocks |-> inserted, latest |-> Some(block.block_num)]
    /\ builder' = Stopped
    /\ UNCHANGED <<state, order_books, traces, now, next_id, ret, n_transfers,
                   current_block_num, hist, proof, appended, locks>>

(* save_block returns Err at failed_call; the ? operators of                *)
(* start_block_generation return the error and the builder task ends, its  *)
(* local pending_traces with it                                            *)
BuilderSaveFail(failed_call) ==
    /\ builder.pc = "save"
    /\ LET block == builder.block[1]
           inserted == MapInsert(db.blocks, block.block_num, block)
       IN db' = CASE failed_call = "insert_block" -> db
                  [] failed_call = "insert_latest" -> [db EXCEPT !.blocks = inserted]
                  [] OTHER -> [blocks |-> inserted, latest |-> Some(block.block_num)]
    /\ builder' = Stopped
    /\ UNCHANGED <<state, order_books, traces, now, next_id, ret, n_transfers,
                   current_block_num, hist, proof, appended, locks>>

(* The process starts again: STATE, MEMPOOL and MATCHED_TRACES are created *)
(* empty, BlockBuilder::new reads latest_block_num from the store          *)
Restart ==
    /\ state' = NoBalances
    /\ order_books' = << >>
    /\ traces' = << >>
    /\ builder' = Idle
    /\ current_block_num' = IF db.latest = None THEN 0 ELSE db.latest[1]
    /\ ret' = Ret("init", 0, "Ok", None)
    /\ UNCHANGED <<now, next_id, n_transfers, db, hist, proof, appended, locks>>

(* u1 is funded with base and sells, u2 is funded with quote and buys *)
Funding == {<<"u1", BTC_USDT, 1>>, <<"u2", BTC_USDT, 2>>}

BuilderNext ==
    \/ /\ n_transfers < MaxBuilderDeposits
       /\ \E f \in Funding : Deposit(f[1], get_pair_tokens(f[2])[f[3]], 2)
    \/ /\ next_id < MaxBuilderOrders
       /\ \E f \in Funding : PlaceOrder(f[1], f[2], 1, 1, f[3] = 2)
    \/ current_block_num < MaxBuilderBlocks /\ BuilderPoll
    \/ BuilderNumber
    \/ BuilderSettle
    \/ BuilderRoot
    \/ BuilderSave
    \/ \E failed_call \in SaveErrors : BuilderSaveFail(failed_call)

(* The exchange with unit orders, the builder's saves failing or not *)
SpecBuilder == Init /\ [][BuilderNext]_vars

RestartNext ==
    \/ BuilderNext
    \/ Restart

(* The same with restarts of the process *)
SpecRestart == Init /\ [][RestartNext]_vars

----------------------------------------------------------------------------
(* Admission: place_order called with pair ids of every shape and with     *)
(* amounts and prices whose product does not fit in a u64                  *)

MaxAdmitOrders == 3
MaxAdmitDeposits == 2

NoSeparator == <<"B", "U">>
TwoSeparators == <<"B", "_", "U", "_", "X">>
EmptyBase == <<"_", "U">>
AdmitPairs == {BTC_USDT, NoSeparator, TwoSeparators, EmptyBase}
AdmitAmounts == {1, 20}
AdmitPrices == {2, 4}
AdmitDeposits == {40}

AdmitNext ==
    \/ /\ n_transfers < MaxAdmitDeposits
       /\ \E token \in Tokens, amount \in AdmitDeposits : Deposit("u1", token, amount)
    \/ /\ next_id < MaxAdmitOrders
       /\ \E pair_id \in AdmitPairs, amount \in AdmitAmounts, price \in AdmitPrices,
             side \in BOOLEAN : PlaceOrder("u1", pair_id, amount, price, side)

SpecAdmit == Init /\ [][AdmitNext]_vars

----------------------------------------------------------------------------
(* OrderBook::get_best_bid / get_best_ask.  `for o in &self.buy_orders`    *)
(* visits the vector under the BinaryHeap front to back; BinaryHeap::iter  *)
(* promises no order beyond what the heap shape gives: every element is    *)
(* not greater than its parent.                                            *)

Perms(S) == {a \in [1..Cardinality(S) -> S] : \A x \in S : \E i \in DOMAIN a : a[i] = x}

BuyLayouts(heap) ==
    {a \in Perms(heap) : \A i \in 2..Len(a) : BuyCmp(a[i \div 2], a[i]) >= 0}

SellLayouts(heap) ==
    {a \in Perms(heap) : \A i \in 2..Len(a) : SellCmp(a[i \div 2], a[i]) >= 0}

RECURSIVE FirstLivePrice(_, _)
(* the loop of get_best_bid / get_best_ask over the vector a *)
FirstLivePrice(a, order_map) ==
    IF a = << >> THEN None
    ELSE IF ~is_order_cancelled(order_map, a[1].id) THEN Some(a[1].price)
    ELSE FirstLivePrice(Tail(a), order_map)

get_best_bid(book, a) == FirstLivePrice(a, book.order_map)
get_best_ask(book, a) == FirstLivePrice(a, book.order_map)

----------------------------------------------------------------------------
(* The locks.  STATE and MATCHED_TRACES are tokio RwLocks; a write guard   *)
(* is held from `.write().await` to the end of the scope of its binding.   *)
(* place_order is taken lock by lock; the handlers themselves are          *)
(* serialised by the MEMPOOL write lock of handle_place_order.             *)

MaxLockOrders == 2
MaxLockDeposits == 2
MaxLockBlocks == 1

Tasks == {"handler", "builder"}

(* handle_deposit: STATE.write().await, add_user_balance, guard dropped *)
LockedDeposit(user_id, token, amount) ==
    /\ locks.state = {}
    /\ Deposit(user_id, token, amount)

(* handle_place_order builds the order; place_order: STATE.write().await *)
HandlerLockState(user_id, pair_id, amount, price, side) ==
    /\ locks.handler.pc = "idle"
    /\ locks.state = {}
    /\ locks' = [locks EXCEPT
                    !.state = {"handler"},
                    !.handler = [pc |-> "check",
                                 order |-> Some(NewOrder(next_id + 1, user_id, pair_id,
                                                         amount, price, side, now))]]
    /\ next_id' = next_id + 1
    /\ UNCHANGED <<state, order_books, traces, now, ret, n_transfers, builder,
                   current_block_num, db, hist, proof, appended>>

(* place_order: the balance checks; an Err returns and drops state_db.  The *)
(* freeze of an admitted order is applied with the rest of the call, which  *)
(* no other task can tell apart while the guard is held                     *)
HandlerCheck ==
    /\ locks.handler.pc = "check"
    /\ LET order == locks.handler.order[1]
           errs == {out.res : out \in place_order(state, order_books, traces, order)}
                      \ {"Ok"}
       IN IF errs # {}
          THEN /\ ret' = Ret("place_order", order.id, CHOOSE err \in errs : TRUE, None)
               /\ locks' = [locks EXCEPT !.state = @ \ {"handler"},
                                         !.mempool = @ \ {"handler"},
                                         !.handler = NoLocks.handler]
          ELSE /\ ret' = ret
               /\ locks' = [locks EXCEPT !.handler.pc = "add"]
    /\ UNCHANGED <<state, order_books, traces, now, next_id, n_transfers, builder,
                   current_block_num, db, hist, proof, appended>>

(* add_order -> match_buy_order / match_sell_order:                         *)
(* MATCHED_TRACES.write().await, state_db still in scope                    *)
HandlerLockTraces ==
    /\ locks.handler.pc = "add"
    /\ locks.traces = {}
    /\ locks' = [locks EXCEPT !.traces = {"handler"}, !.handler.pc = "match"]
    /\ UNCHANGED <<state, order_books, traces, now, next_id, ret, n_transfers, builder,
                   current_block_num, db, hist, proof, appended>>

(* the matching loop; the traces guard is dropped when match_* returns *)
HandlerMatch ==
    /\ locks.handler.pc = "match"
    /\ LET order == locks.handler.order[1]
       IN \E out \in place_order(state, order_books, traces, order) :
            /\ state' = out.state
            /\ order_books' = out.order_books
            /\ traces' = out.traces
            /\ appended' = appended \o SubSeq(out.traces, Len(traces) + 1, Len(out.traces))
            /\ ret' = Ret("place_order", order.id, out.res, None)
    /\ locks' = [locks EXCEPT !.traces = @ \ {"handler"}, !.handler.pc = "ret"]
    /\ UNCHANGED <<now, next_id, n_transfers, builder, current_block_num, db, hist, proof>>

(* place_order returns Ok(order.id): state_db goes out of scope, and with  *)
(* the return of handle_place_order its guard of MEMPOOL                   *)
HandlerReturn ==
    /\ locks.handler.pc = "ret"
    /\ locks' = [locks EXCEPT !.state = @ \ {"handler"},
                              !.mempool = @ \ {"handler"},
                              !.handler = NoLocks.handler]
    /\ UNCHANGED <<state, order_books, traces, now, next_id, ret, n_transfers, builder,
                   current_block_num, db, hist, proof, appended>>

(* A builder that drains MATCHED_TRACES without waiting for its guard *)
BuilderBargesIn ==
    /\ builder.pc = "poll"
    /\ locks' = [locks EXCEPT !.traces = @ \cup {"builder"}]
    /\ UNCHANGED <<state, order_books, traces, now, next_id, ret, n_transfers, builder,
                   current_block_num, db, hist, proof, appended>>

(* start_block_generation: MATCHED_TRACES.write().await *)
BuilderLockTraces ==
    /\ builder.pc = "poll"
    /\ locks.traces = {}
    /\ locks' = [locks EXCEPT !.traces = {"builder"}]
    /\ UNCHANGED <<state, order_books, traces, now, next_id, ret, n_transfers, builder,
                   current_block_num, db, hist, proof, appended>>

(* A builder that keeps its guard of MATCHED_TRACES after the drain *)
BuilderDrainKeepsGuard ==
    /\ builder.pc = "poll"
    /\ "builder" \in locks.traces
    /\ \E time_elapsed \in BOOLEAN :
         LET pending_traces == builder.pending \o traces
             txn_count_reached == Len(pending_traces) >= MAX_TXN_SIZE
             should_generate_block ==
                 (time_elapsed \/ txn_count_reached) /\ pending_traces # << >>
         IN /\ should_generate_block
            /\ builder' = [builder EXCEPT !.pending = pending_traces, !.pc = "create"]
    /\ traces' = << >>
    /\ UNCHANGED <<state, order_books, now, next_id, ret, n_transfers,
                   current_block_num, db, hist, proof, appended, locks>>

(* start_block_generation: clone and clear under the guard, which is       *)
(* dropped at the end of the block; then should_generate_block              *)
BuilderDrain ==
    /\ builder.pc = "poll"
    /\ "builder" \in locks.traces
    /\ \E time_elapsed \in BOOLEAN :
         LET pending_traces == builder.pending \o traces
             txn_count_reached == Len(pending_traces) >= MAX_TXN_SIZE
             should_generate_block ==
                 (time_elapsed \/ txn_count_reached) /\ pending_traces # << >>
         IN builder' = [builder EXCEPT
                           !.pending = pending_traces,
                           !.pc = IF should_generate_block THEN "create" ELSE "poll"]
    /\ traces' = << >>
    /\ locks' = [locks EXCEPT !.traces = @ \ {"builder"}]
    /\ UNCHANGED <<state, order_books, now, next_id, ret, n_transfers,
                   current_block_num, db, hist, proof, appended>>

(* create_block: STATE.write().await *)
BuilderLockState ==
    /\ builder.pc = "settle"
    /\ locks.state = {}
    /\ locks' = [locks EXCEPT !.state = {"builder"}]
    /\ UNCHANGED <<state, order_books, traces, now, next_id, ret, n_transfers, builder,
                   current_block_num, db, hist, proof, appended>>

(* create_block: the settlement; the guard is dropped at the end of the block *)
BuilderSettleLocked ==
    /\ builder.pc = "settle"
    /\ "builder" \in locks.state
    /\ state' = SettleAll(state, builder.pending)
    /\ hist' = MapInsert(hist, current_block_num, [pre |-> state, post |-> state'])
    /\ builder' = [builder EXCEPT !.pc = "root"]
    /\ locks' = [locks EXCEPT !.state = @ \ {"builder"}]
    /\ UNCHANGED <<order_books, traces, now, next_id, ret, n_transfers,
                   current_block_num, db, proof, appended>>

LockNext ==
    \/ /\ n_transfers < MaxLockDeposits
       /\ \E f \in Funding : LockedDeposit(f[1], get_pair_tokens(f[2])[f[3]], 2)
    \/ /\ next_id < MaxLockOrders
       /\ \E f \in Funding, amount \in {1, 2} :
             HandlerLockState(f[1], f[2], amount, 1, f[3] = 2)
    \/ HandlerCheck
    \/ HandlerLockTraces
    \/ HandlerMatch
    \/ HandlerReturn
    \/ current_block_num < MaxLockBlocks /\ BuilderLockTraces
    \/ BuilderDrain
    \/ BuilderNumber
    \/ BuilderLockState
    \/ BuilderSettleLocked
    \/ locks.state = {} /\ BuilderRoot
    \/ BuilderSave

SpecLocks == Init /\ [][LockNext]_vars

----------------------------------------------------------------------------
(* The readers of the block builder *)

(* BlockBuilder::get_block: Option<Block> *)
get_block(store, block_num) ==
    IF block_num \in DOMAIN store.blocks THEN Some(store.blocks[block_num]) ELSE None

(* BlockBuilder::get_latest_block_num *)
get_latest_block_num == current_block_num

----------------------------------------------------------------------------
(* The builder under load: more than MAX_TXN_SIZE traces between two polls. *)
(* With u64 scaled to 0..U64Max the balances cannot fund that many trades   *)
(* of a positive amount; a buy of amount 0 needs no funds and leaves one    *)
(* trace for the resting sell it meets.                                     *)

MaxPollOrders == 101
MaxPollDeposits == 2
MaxPollBlocks == 2
BatchSizes == {25, 50}

(* The outcome of place_order for the i-th order of a batch: a buy of      *)
(* amount 0 by u2, of id next_id + i                                        *)
BatchCall(i) ==
    CHOOSE out \in place_order(state, order_books, << >>,
                               NewOrder(next_id + i, "u2", BTC_USDT, 0, 1, TRUE, now)) : TRUE

(* n calls of handle_place_order with no poll of the builder in between.   *)
(* Each call is admitted, pushes one trace and leaves the balances and the *)
(* book as they were, so the calls do not depend on one another            *)
PlaceBatch(n) ==
    /\ \A i \in 1..n :
          /\ BatchCall(i).res = "Ok"
          /\ BatchCall(i).state = state
          /\ BatchCall(i).order_books = order_books
          /\ Len(BatchCall(i).traces) = 1
    /\ LET pushed == [i \in 1..n |-> BatchCall(i).traces[1]]
       IN /\ traces' = traces \o pushed
          /\ appended' = appended \o pushed
    /\ ret' = Ret("place_order", next_id + n, "Ok", None)
    /\ next_id' = next_id + n
    /\ UNCHANGED <<state, order_books, now, n_transfers, builder, current_block_num,
                   db, hist, proof, locks>>

PollNext ==
    \/ /\ n_transfers < MaxPollDeposits
       /\ \E f \in Funding : Deposit(f[1], get_pair_tokens(f[2])[f[3]], 1)
    \/ next_id < 1 /\ PlaceOrder("u1", BTC_USDT, 1, 1, FALSE)
    \/ /\ next_id >= 1
       /\ \E n \in BatchSizes : next_id + n <= MaxPollOrders /\ PlaceBatch(n)
    \/ current_block_num < MaxPollBlocks /\ BuilderPoll
    \/ BuilderNumber
    \/ BuilderSettle
    \/ BuilderRoot
    \/ BuilderSave

SpecPoll == Init /\ [][PollNext]_vars

----------------------------------------------------------------------------
(* The builder task scheduled fairly, its saves succeeding.  The loop of   *)
(* start_block_generation polls every 100 ms and the clock advances, so a  *)
(* poll that finds the interval elapsed and something pending is not put   *)
(* off for ever; each later step of the task is taken once it is reached.  *)

MaxLiveOrders == 4
MaxLiveDeposits == 2

(* The poll at which should_generate_block is true *)
BuildDue == BuilderPoll /\ builder'.pc = "create"

LiveNext ==
    \/ /\ n_transfers < MaxLiveDeposits
       /\ \E f \in Funding : Deposit(f[1], get_pair_tokens(f[2])[f[3]], 2)
    \/ /\ next_id < MaxLiveOrders
       /\ \E f \in Funding : PlaceOrder(f[1], f[2], 1, 1, f[3] = 2)
    \/ BuilderPoll
    \/ BuilderNumber
    \/ BuilderSettle
    \/ BuilderRoot
    \/ BuilderSave

(* The next step of the builder task that makes progress on a block *)
BuilderStep ==
    BuildDue \/ BuilderNumber \/ BuilderSettle \/ BuilderRoot \/ BuilderSave

LiveFairness == WF_vars(BuilderStep)

SpecLive == Init /\ [][LiveNext]_vars /\ LiveFairness

----------------------------------------------------------------------------
(* The matching loop trace by trace.  match_buy_order and match_sell_order *)
(* push one trace per turn of their loop while they hold the write guard   *)
(* of MATCHED_TRACES; the book and the balances they work on are behind    *)
(* the guards of MEMPOOL and STATE, which the handler holds until it       *)
(* returns, so no other task sees them before the call is over.            *)

MaxPushOrders == 3
MaxPushDeposits == 2
MaxPushBlocks == 2

(* The traces the call under way has pushed so far *)
PushedBy(order_id) ==
    SelectSeq(appended, LAMBDA tr : order_id \in {tr.buy_order.id, tr.sell_order.id})

(* One turn of the loop: traces.push(MatchedTrace { .. }); after the last  *)
(* turn match_* returns and its guard of MATCHED_TRACES is dropped         *)
HandlerPush ==
    /\ locks.handler.pc = "match"
    /\ LET order == locks.handler.order[1]
           pushed == PushedBy(order.id)
       IN \E out \in place_order(state, order_books, << >>, order) :
            /\ Len(pushed) <= Len(out.traces)
            /\ SubSeq(out.traces, 1, Len(pushed)) = pushed
            /\ IF Len(pushed) < Len(out.traces)
               THEN /\ traces' = Append(traces, out.traces[Len(pushed) + 1])
                    /\ appended' = Append(appended, out.traces[Len(pushed) + 1])
                    /\ UNCHANGED <<state, order_books, ret, locks>>
               ELSE /\ state' = out.state
                    /\ order_books' = out.order_books
                    /\ ret' = Ret("place_order", order.id, out.res, None)
                    /\ locks' = [locks EXCEPT !.traces = @ \ {"handler"},
                                              !.handler.pc = "ret"]
                    /\ UNCHANGED <<traces, appended>>
    /\ UNCHANGED <<now, next_id, n_transfers, builder, current_block_num, db, hist, proof>>

PushNext ==
    \/ /\ n_transfers < MaxPushDeposits
       /\ \E f \in Funding : LockedDeposit(f[1], get_pair_tokens(f[2])[f[3]], 2)
    \/ /\ next_id < MaxPushOrders
       /\ \E f \in Funding, amount \in {1, 2} :
             HandlerLockState(f[1], f[2], amount, 1, f[3] = 2)
    \/ HandlerCheck
    \/ HandlerLockTraces
    \/ HandlerPush
    \/ HandlerReturn
    \/ current_block_num < MaxPushBlocks /\ BuilderLockTraces
    \/ BuilderDrain
    \/ BuilderNumber
    \/ BuilderLockState
    \/ BuilderSettleLocked
    \/ locks.state = {} /\ BuilderRoot
    \/ BuilderSave

SpecPush == Init /\ [][PushNext]_vars

----------------------------------------------------------------------------
(* All the tasks and all their locks: the handlers of place_order and of   *)
(* cancel_order, which hold the write guard of MEMPOOL from their first    *)
(* line to their return, the handlers of deposit and withdraw, a reader    *)
(* for the queries (get_balance, get_order, get_latest_block_num), and the *)
(* builder.  A lock is the set of the tasks that hold it.                  *)

MaxWaitOrders == 3
MaxWaitDeposits == 2
MaxWaitBlocks == 1

AllTasks == {"handler", "canceller", "reader", "builder"}
Locks == {"mempool", "state", "traces", "block_num"}

(* handle_place_order: MEMPOOL.write().await *)
HandlerLockMempool ==
    /\ locks.handler.pc = "idle"
    /\ locks.mempool = {}
    /\ locks' = [locks EXCEPT !.mempool = {"handler"}]
    /\ UNCHANGED <<state, order_books, traces, now, next_id, ret, n_transfers, builder,
                   current_block_num, db, hist, proof, appended>>

(* handle_cancel_order: MEMPOOL.write().await *)
CancellerLockMempool(pair_id, order_id) ==
    /\ locks.canceller.pc = "idle"
    /\ locks.mempool = {}
    /\ locks' = [locks EXCEPT
                    !.mempool = {"canceller"},
                    !.canceller = [pc |-> "book", call |-> Some(<<pair_id, order_id>>)]]
    /\ UNCHANGED <<state, order_books, traces, now, next_id, ret, n_transfers, builder,
                   current_block_num, db, hist, proof, appended>>

(* Mempool::cancel_order: the lookups of the pair and of the order; an Err  *)
(* returns and the guard of MEMPOOL is dropped.  What the call writes is    *)
(* applied at its end: the book is behind the guard of MEMPOOL until then   *)
CancellerBook ==
    /\ locks.canceller.pc = "book"
    /\ LET call == locks.canceller.call[1]
           c == cancel_order(state, order_books, call[1], call[2], now)
       IN IF c.res # "Ok"
          THEN /\ ret' = Ret("cancel_order", call[2], c.res, c.order)
               /\ locks' = [locks EXCEPT !.mempool = @ \ {"canceller"},
                                         !.canceller = NoLocks.canceller]
          ELSE /\ ret' = ret
               /\ locks' = [locks EXCEPT !.canceller.pc = "state"]
    /\ UNCHANGED <<state, order_books, traces, now, next_id, n_transfers, builder,
                   current_block_num, db, hist, proof, appended>>

(* Mempool::cancel_order: STATE.write().await, under the guard of MEMPOOL *)
CancellerLockState ==
    /\ locks.canceller.pc = "state"
    /\ locks.state = {}
    /\ locks' = [locks EXCEPT !.state = {"canceller"}, !.canceller.pc = "unfreeze"]
    /\ UNCHANGED <<state, order_books, traces, now, next_id, ret, n_transfers, builder,
                   current_block_num, db, hist, proof, appended>>

(* Mempool::cancel_order: unfreeze and Ok; both guards are dropped *)
CancellerUnfreeze ==
    /\ locks.canceller.pc = "unfreeze"
    /\ LET call == locks.canceller.call[1]
           c == cancel_order(state, order_books, call[1], call[2], now)
       IN /\ state' = c.state
          /\ order_books' = c.order_books
          /\ ret' = Ret("cancel_order", call[2], c.res, c.order)
    /\ locks' = [locks EXCEPT !.state = @ \ {"canceller"},
                              !.mempool = @ \ {"canceller"},
                              !.canceller = NoLocks.canceller]
    /\ UNCHANGED <<traces, now, next_id, n_transfers, builder,
                   current_block_num, db, hist, proof, appended>>

(* handle_get_balance: STATE.read(); handle_get_order: MEMPOOL.read();     *)
(* get_latest_block_num: current_block_num.read()                          *)
ReaderLock(lock) ==
    /\ \A l \in Locks : "reader" \notin locks[l]
    /\ locks[lock] = {}
    /\ locks' = [locks EXCEPT ![lock] = {"reader"}]
    /\ UNCHANGED <<state, order_books, traces, now, next_id, ret, n_transfers, builder,
                   current_block_num, db, hist, proof, appended>>

(* the query returns and its guard is dropped *)
ReaderUnlock ==
    /\ \E l \in Locks : "reader" \in locks[l]
    /\ locks' = [l \in DOMAIN locks |->
                    IF l \in Locks THEN locks[l] \ {"reader"} ELSE locks[l]]
    /\ UNCHANGED <<state, order_books, traces, now, next_id, ret, n_transfers, builder,
                   current_block_num, db, hist, proof, appended>>

WaitNext ==
    \/ /\ n_transfers < MaxWaitDeposits
       /\ \E f \in Funding : LockedDeposit(f[1], get_pair_tokens(f[2])[f[3]], 2)
    \/ /\ n_transfers < MaxWaitDeposits
       /\ locks.state = {}
       /\ \E f \in Funding : Withdraw(f[1], get_pair_tokens(f[2])[f[3]], 1)
    \/ next_id < MaxWaitOrders /\ HandlerLockMempool
    \/ /\ "handler" \in locks.mempool
       /\ \E f \in Funding : HandlerLockState(f[1], f[2], 1, 1, f[3] = 2)
    \/ HandlerCheck
    \/ HandlerLockTraces
    \/ HandlerMatch
    \/ HandlerReturn
    \/ \E order_id \in 1..MaxWaitOrders : CancellerLockMempool(BTC_USDT, order_id)
    \/ CancellerBook
    \/ CancellerLockState
    \/ CancellerUnfreeze
    \/ \E lock \in Locks \ {"traces"} : ReaderLock(lock)
    \/ ReaderUnlock
    \/ current_block_num < MaxWaitBlocks /\ BuilderLockTraces
    \/ BuilderDrain
    \/ locks.block_num = {} /\ BuilderNumber
    \/ BuilderLockState
    \/ BuilderSettleLocked
    \/ locks.state \subseteq {"reader"} /\ BuilderRoot
    \/ BuilderSave

SpecWait == Init /\ [][WaitNext]_vars

----------------------------------------------------------------------------
(* Notions the properties are stated with *)

(* The traces a step appended to MATCHED_TRACES *)
NewTraces ==
    IF Len(traces') > Len(traces) /\ SubSeq(traces', 1, Len(traces)) = traces
    THEN SubSeq(traces', Len(traces) + 1, Len(traces'))
    ELSE << >>

TheBook == GetBook(order_books, BTC_USDT)

Cancelled(book, order_id) ==
    order_id \in DOMAIN book.order_map /\ book.order_map[order_id].status = "Cancelled"

(* The resting order of a trace whose incoming order is a buy, or a sell *)
Resting(tr, incoming_buy) == IF incoming_buy THEN tr.sell_order ELSE tr.buy_order

RECURSIVE ConsumedBefore(_, _, _, _)
(* What the traces nt[1..k-1] took from the resting order order_id *)
ConsumedBefore(nt, k, order_id, incoming_buy) ==
    IF k <= 1 THEN 0
    ELSE ConsumedBefore(nt, k - 1, order_id, incoming_buy)
         + (IF Resting(nt[k - 1], incoming_buy).id = order_id
            THEN nt[k - 1].matched_amount ELSE 0)

(* q would be matched before r: a better price, or the same price earlier *)
Better(q, r, incoming_buy) ==
    \/ (IF incoming_buy THEN q.price < r.price ELSE q.price > r.price)
    \/ q.price = r.price /\ q.created_at < r.created_at

----------------------------------------------------------------------------
(* C6: matching follows price-time priority.  Whenever a call appends       *)
(* traces, the resting order of each trace is one that no other live        *)
(* resting order of that side (not cancelled, with remaining amount left    *)
(* after the call's earlier traces) beats on price, or on created_at at the *)
(* same price.                                                              *)
C6_PriceTimePriority ==
    [][LET nt == NewTraces
           incoming_buy == nt[1].buy_order.id = next_id'
           heap == IF incoming_buy THEN TheBook.sell_orders ELSE TheBook.buy_orders
       IN nt # << >> =>
          \A k \in 1..Len(nt) : \A q \in heap :
             ( /\ ~Cancelled(TheBook, q.id)
               /\ q.id # Resting(nt[k], incoming_buy).id
               /\ remaining_amount(q) - ConsumedBefore(nt, k, q.id, incoming_buy) > 0 )
             => ~Better(q, Resting(nt[k], incoming_buy), incoming_buy)
      ]_vars

(* An incoming order has consumed two resting orders, the better one first *)
C6_Witness ==
    \E i, j \in 1..Len(traces) :
       /\ i < j
       /\ \/ /\ traces[i].buy_order.id = traces[j].buy_order.id
             /\ traces[i].sell_order.id # traces[j].sell_order.id
             /\ Better(traces[i].sell_order, traces[j].sell_order, TRUE)
          \/ /\ traces[i].sell_order.id = traces[j].sell_order.id
             /\ traces[i].buy_order.id # traces[j].buy_order.id
             /\ Better(traces[i].buy_order, traces[j].buy_order, FALSE)

(* C7: lazy cancellation is safe.  No trace a step appends has as its       *)
(* buy_order or sell_order an order that was cancelled before the step.     *)
C7_CancelledNeverMatched ==
    [][\A k \in 1..Len(NewTraces) :
          /\ ~Cancelled(TheBook, NewTraces[k].buy_order.id)
          /\ ~Cancelled(TheBook, NewTraces[k].sell_order.id)
      ]_vars

(* A cancelled order with remaining amount has been popped by a later       *)
(* matching call, which dropped it from its heap without a trace            *)
C7_Witness ==
    \E id \in DOMAIN TheBook.order_map :
       /\ Cancelled(TheBook, id)
       /\ remaining_amount(TheBook.order_map[id]) > 0
       /\ \A o \in TheBook.buy_orders \cup TheBook.sell_orders : o.id # id

RECURSIVE TotalOf(_, _, _)
(* free + frozen of a token, summed over the users us *)
TotalOf(st, us, token_id) ==
    IF us = {} THEN 0
    ELSE LET u == CHOOSE x \in us : TRUE
         IN Entry(st, u, token_id).free + Entry(st, u, token_id).frozen
            + TotalOf(st, us \ {u}, token_id)

(* The balance check of place_order does not pass: for a buy the free quote *)
(* balance is below amount * price plus what is frozen already, for a sell  *)
(* the free base balance is below amount                                    *)
FailsBalanceCheck(st, user_id, tokens, amount, price, side) ==
    IF side
    THEN get_user_balance(st, user_id, tokens[2])
            < amount * price + get_frozen(st, user_id, tokens[2])
    ELSE get_user_balance(st, user_id, tokens[1]) < amount

InsufficientBalance == {"ErrInsufficientQuote", "ErrInsufficientBase"}

(* A trade of a positive amount between two different users *)
OrdinaryTrade(trace) ==
    trace.buy_order.user_id # trace.sell_order.user_id /\ trace.matched_amount > 0

OrdinaryTrades(txns) == \A i \in DOMAIN txns : OrdinaryTrade(txns[i])

(* The blocks of the store, all of ordinary trades, that hist covers *)
Built == {k \in DOMAIN db.blocks : k \in DOMAIN hist /\ OrdinaryTrades(db.blocks[k].txns)}

(* C1: no step other than a deposit or a withdraw changes, for any token,   *)
(* the sum over all users of free + frozen: placing, cancelling and block   *)
(* settlement neither create nor destroy funds.  Stated for the steps taken *)
(* while all trades awaiting settlement are ordinary ones.                  *)
C1_FundsConserved ==
    [][(n_transfers' = n_transfers /\ OrdinaryTrades(builder.pending)) =>
          \A token_id \in Tokens :
             TotalOf(state', Users, token_id) = TotalOf(state, Users, token_id)
      ]_vars

(* C2: a block whose only trace fully matches a buy of a at p by B with a   *)
(* sell of a at p by S, settled from the state in which B holds only the    *)
(* a*p of quote it reserved and S only the a of base it reserved, leaves    *)
(* B with free base a and free quote 0, S with free base 0 and free quote   *)
(* a*p, and no frozen balance.                                              *)
C2_FullMatchPostState ==
    \A k \in Built :
       LET txns == db.blocks[k].txns
           t == txns[1]
           B == t.buy_order.user_id
           S == t.sell_order.user_id
           a == t.matched_amount
           p == t.buy_order.price
           base == t.buy_order.token_a
           quote == t.buy_order.token_b
           pre == hist[k].pre
           post == hist[k].post
       IN ( /\ Len(txns) = 1
            /\ B # S
            /\ a > 0
            /\ t.buy_order.amount = a /\ t.sell_order.amount = a
            /\ t.sell_order.price = p
            /\ t.sell_order.id < t.buy_order.id
            /\ Entry(pre, B, quote) = [free |-> 0, frozen |-> a * p]
            /\ Entry(pre, B, base) = [free |-> 0, frozen |-> 0]
            /\ Entry(pre, S, base) = [free |-> 0, frozen |-> a]
            /\ Entry(pre, S, quote) = [free |-> 0, frozen |-> 0] )
          => /\ Entry(post, B, base) = [free |-> a, frozen |-> 0]
             /\ Entry(post, B, quote) = [free |-> 0, frozen |-> 0]
             /\ Entry(post, S, base) = [free |-> 0, frozen |-> 0]
             /\ Entry(post, S, quote) = [free |-> a * p, frozen |-> 0]

(* C3: the state_root stored in a block of ordinary trades is the root of   *)
(* the state its settlement left, whichever order the users are hashed in:  *)
(* nothing changes the state between the settlement and the root.           *)
C3_StateRootOfSettledState ==
    \A k \in Built :
       \E ord \in UserOrders :
          db.blocks[k].state_root = calculate_state_root(hist[k].post, ord)

RECURSIVE ReplayState(_, _)
(* The state the program's loop holds after the blocks, assertions aside *)
ReplayState(st, blocks) ==
    IF blocks = << >> THEN st
    ELSE ReplayState(ReplayTraces(st, Head(blocks).txns), Tail(blocks))

(* C4: replaying the blocks 1..k, of ordinary trades, as the re-execution   *)
(* program does, from the state captured before block 1 was settled, ends   *)
(* in a state with the root of the live state after block k was settled.    *)
C4_ReplayReachesLiveRoot ==
    \A k \in Built :
       (\A i \in 1..k : i \in Built) =>
       \E ord \in UserOrders :
          calculate_state_root(
              ReplayState(hist[1].pre, [i \in 1..k |-> db.blocks[i]]), ord)
          = calculate_state_root(hist[k].post, ord)

(* C5: run on [block k], a block of ordinary trades, and the state as it    *)
(* was before block k was built, the re-execution program fails none of its *)
(* assertions and commits pi = H(prev || post || H(txns_root)).             *)
C5_SingleBlockProofPasses ==
    (proof.ran /\ proof.lo = proof.hi /\ proof.lo \in Built) =>
       /\ proof.failed = ""
       /\ LET block == db.blocks[proof.lo]
          IN proof.committed =
                Some(calculate_pi_hash(unwrap_or_default(block.state_root),
                                       unwrap_or_default(block.state_root),
                                       calculate_da_hash(<<block.txns_root[1]>>)))

(* C8: cancel_order on an order that is already cancelled returns that      *)
(* cancelled order and leaves all balances, free and frozen, as they were.  *)
C8_CancelIdempotent ==
    [][\A pair_id \in Pairs, order_id \in 1..MaxOrders :
          ( /\ Cancelled(GetBook(order_books, pair_id), order_id)
            /\ CancelOrder(pair_id, order_id) )
          => /\ ret'.res = "Ok"
             /\ ret'.order = Some(order_books[pair_id].order_map[order_id])
             /\ state' = state
      ]_vars

(* C9: when the first order submitted rests and is cancelled with nothing   *)
(* filled, its user's frozen balance of the reserved token is what it was   *)
(* before the placement, 0, no other order having reserved anything.        *)
C9_PlaceCancelRestores ==
    ( /\ next_id = 1
      /\ ret.op = "cancel_order" /\ ret.id = 1 /\ ret.res = "Ok"
      /\ ret.order[1].filled_amount = 0 )
    => LET order == ret.order[1]
       IN get_frozen(state, order.user_id,
                     IF order.side THEN order.token_b ELSE order.token_a) = 0

(* C10: a place_order whose balance check does not pass returns an          *)
(* insufficient-balance error and changes nothing: no balance, no order     *)
(* book created or modified, the order not found by get_order, no trace.    *)
C10_RejectedChangesNothing ==
    [][next_id' = next_id + 1 =>
         \A pair_id \in Pairs :
            LET tokens == get_pair_tokens(pair_id)
            IN \A user_id \in Users, amount \in Amounts, price \in Prices,
                  side \in BOOLEAN :
                  ( /\ FailsBalanceCheck(state, user_id, tokens, amount, price, side)
                    /\ PlaceOrder(user_id, pair_id, amount, price, side) )
                  => /\ ret'.res \in InsufficientBalance
                     /\ state' = state
                     /\ order_books' = order_books
                     /\ traces' = traces
                     /\ get_order(order_books', pair_id, next_id + 1) = None
      ]_vars

(* An order was rejected for its balance while the book held another order *)
(* and funds were frozen                                                    *)
C10_Witness ==
    /\ ret.op = "place_order"
    /\ ret.res \in InsufficientBalance
    /\ BTC_USDT \in DOMAIN order_books
    /\ order_books[BTC_USDT].order_map # << >>
    /\ get_order(order_books, BTC_USDT, ret.id) = None
    /\ \E u \in DOMAIN state : \E t \in DOMAIN state[u] : state[u][t].frozen > 0

(* C11: a successful place_order moves exactly amount * price of the quote  *)
(* token (buy), or exactly amount of the base token (sell), from the user's *)
(* free balance to the user's frozen balance, whatever is frozen already.   *)
C11_ReservesExactCost ==
    [][(next_id' = next_id + 1 /\ ret'.res = "Ok") =>
         \A pair_id \in Pairs :
            LET tokens == get_pair_tokens(pair_id)
            IN \A user_id \in Users, amount \in Amounts, price \in Prices,
                  side \in BOOLEAN :
                  PlaceOrder(user_id, pair_id, amount, price, side) =>
                     LET token_id == IF side THEN tokens[2] ELSE tokens[1]
                         reserved == IF side THEN amount * price ELSE amount
                         before == Entry(state, user_id, token_id)
                         after == Entry(state', user_id, token_id)
                     IN /\ after.free = before.free - reserved
                        /\ after.frozen = before.frozen + reserved
      ]_vars

RECURSIVE BlockLog(_)
(* The txns of the stored blocks 1..n, concatenated in block-number order *)
BlockLog(n) ==
    IF n = 0 THEN << >>
    ELSE BlockLog(n - 1) \o (IF n \in DOMAIN db.blocks THEN db.blocks[n].txns ELSE << >>)

StoredBlocks == Cardinality(DOMAIN db.blocks)

(* C12: the numbers of the persisted blocks are strictly increasing and     *)
(* gap-free from 1.  Every step that writes a block to the store leaves the *)
(* blocks stored before as they were and adds the block whose number is the *)
(* number of blocks stored before plus 1, also after a restart.             *)
C12_BlockNumbersGapFree ==
    [][db'.blocks # db.blocks =>
         /\ DOMAIN db.blocks = 1..StoredBlocks
         /\ DOMAIN db'.blocks = 1..(StoredBlocks + 1)
         /\ db'.blocks[StoredBlocks + 1].block_num = StoredBlocks + 1
         /\ \A k \in DOMAIN db.blocks : db'.blocks[k] = db.blocks[k]
      ]_vars

(* C13: the txns of the persisted blocks, concatenated in block-number      *)
(* order, are a prefix of the traces in the order matching pushed them:     *)
(* none is duplicated, reordered or skipped.                                *)
C13_BlocksFollowMatchOrder ==
    /\ Len(BlockLog(StoredBlocks)) <= Len(appended)
    /\ BlockLog(StoredBlocks) = SubSeq(appended, 1, Len(BlockLog(StoredBlocks)))

(* Two blocks are stored, each with a trace: the second trade was matched  *)
(* after the drain that fed the first block                                *)
C13_Witness ==
    /\ StoredBlocks = 2
    /\ \A k \in DOMAIN db.blocks : db.blocks[k].txns # << >>
    /\ Len(appended) = 2

(* C14: when save_block fails, the iteration leaves the in-memory block     *)
(* number at its value before the iteration and the balances, if no handler *)
(* changed them since the settlement, at theirs, keeps the pending traces,  *)
(* and the loop goes on polling.                                            *)
C14_FailedSaveRollsBack ==
    [][\A failed_call \in SaveErrors :
          BuilderSaveFail(failed_call) =>
             LET k == builder.block[1].block_num
             IN /\ current_block_num' = k - 1
                /\ state = hist[k].post => state' = hist[k].pre
                /\ builder'.pending = builder.pending
                /\ builder'.pc = "poll"
      ]_vars

RECURSIVE MatchedSum(_)
(* The sum of matched_amount over a sequence of traces *)
MatchedSum(trs) ==
    IF trs = << >> THEN 0 ELSE trs[1].matched_amount + MatchedSum(Tail(trs))

(* The traces the step appended *)
Appended == SubSeq(appended', Len(appended) + 1, Len(appended'))

(* C15: after place_order returned Ok for an order of a positive amount that  *)
(* its own matching filled completely, get_order(pair, order_id) returns the *)
(* order with status Filled.                                                 *)
C15_FilledOrderIsReturned ==
    [][(next_id' = next_id + 1 /\ ret'.res = "Ok" /\ Len(appended') > Len(appended)) =>
         \A pair_id \in Pairs, user_id \in Users, amount \in Amounts \ {0},
            price \in Prices, side \in BOOLEAN :
               (PlaceOrder(user_id, pair_id, amount, price, side)
                  /\ MatchedSum(Appended) = amount) =>
                     LET found == get_order(order_books', pair_id, next_id + 1)
                     IN found # None /\ found[1].status = "Filled" ]_vars

(* C16: every order held in the order_map of a book has status Filled if   *)
(* and only if its filled_amount equals its amount.                         *)
C16_FilledIffFullAmount ==
    \A pair_id \in DOMAIN order_books :
       \A order_id \in DOMAIN order_books[pair_id].order_map :
          LET order == order_books[pair_id].order_map[order_id]
          IN order.status = "Filled" <=> order.filled_amount = order.amount

(* C17: every trace ever appended to MATCHED_TRACES has matched_amount > 0. *)
C17_MatchedAmountPositive ==
    \A i \in DOMAIN appended : appended[i].matched_amount > 0

(* BASE_QUOTE: exactly one separator and two non-empty tokens *)
WellFormed(pair_id) ==
    LET tokens == Split(pair_id, "_")
    IN Len(tokens) = 2 /\ tokens[1] # << >> /\ tokens[2] # << >>

(* The call returned Err(..) to the handler *)
ReturnedErr(r) == r.res \notin {"Ok", "Panic"}

(* C18: place_order with a pair id that is not BASE_QUOTE returns an        *)
(* admission error and leaves the balances, the books and the trace buffer *)
(* unchanged.                                                               *)
C18_MalformedPairRejected ==
    [][next_id' = next_id + 1 =>
         \A pair_id \in AdmitPairs, amount \in AdmitAmounts, price \in AdmitPrices,
            side \in BOOLEAN :
               (PlaceOrder("u1", pair_id, amount, price, side) /\ ~WellFormed(pair_id)) =>
                  /\ ReturnedErr(ret')
                  /\ UNCHANGED <<state, order_books, traces>> ]_vars

(* amount * price, or amount * price plus the frozen quote balance, does   *)
(* not fit in a u64                                                        *)
CostOverflows(st, user_id, quote_token, amount, price) ==
    \/ amount * price > U64Max
    \/ amount * price + get_frozen(st, user_id, quote_token) > U64Max

(* C19: a buy whose cost, alone or added to the frozen quote balance,      *)
(* overflows a u64 returns the overflow error and changes no balance, no   *)
(* book and no trace.                                                      *)
C19_OverflowRejected ==
    [][next_id' = next_id + 1 =>
         \A pair_id \in AdmitPairs \ {NoSeparator} :
            LET tokens == get_pair_tokens(pair_id)
            IN \A amount \in AdmitAmounts, price \in AdmitPrices :
                  (PlaceOrder("u1", pair_id, amount, price, TRUE)
                     /\ CostOverflows(state, "u1", tokens[2], amount, price)) =>
                        /\ ret'.res = "ErrOverflow"
                        /\ UNCHANGED <<state, order_books, traces>> ]_vars

(* A buy was refused for overflow while quote funds of the user were frozen *)
C19_Witness ==
    /\ ret.op = "place_order"
    /\ ret.res = "ErrOverflow"
    /\ get_frozen(state, "u1", <<"U">>) > 0

(* C20: sub_user_balance returns false if and only if the free balance is  *)
(* below amount, and then no balance changes; when it returns true the     *)
(* free balance of (user, token) decreases by amount and no other balance  *)
(* changes.  Stated on the withdraw steps, which call it.                   *)
C20_SubIsAllOrNothing ==
    [][n_transfers' = n_transfers + 1 =>
         \A user_id \in Users, token \in Tokens, amount \in DepositAmounts :
            Withdraw(user_id, token, amount) =>
               LET before == Entry(state, user_id, token)
                   after == Entry(state', user_id, token)
                   ok == sub_user_balance(state, user_id, token, amount).ok
               IN /\ ~ok <=> before.free < amount
                  /\ after.frozen = before.frozen
                  /\ after.free = IF ok THEN before.free - amount ELSE before.free
                  /\ \A u \in Users, t \in Tokens :
                        <<u, t>> # <<user_id, token>> =>
                           Entry(state', u, t) = Entry(state, u, t) ]_vars

(* A whole deposit was withdrawn: the entry exists with nothing left in it, *)
(* no order having been placed                                              *)
C20_Witness ==
    /\ n_transfers = 2
    /\ next_id = 0
    /\ \E user_id \in DOMAIN state :
          \E token \in DOMAIN state[user_id] :
             state[user_id][token] = [free |-> 0, frozen |-> 0]

(* calculate_user_hash of state.rs: the user id, then token id and balance *)
(* of each token in sorted order                                           *)
BalancesHash(user_id, balances) ==
    LET toks == SortedTokens(DOMAIN balances)
    IN Sha3([user |-> user_id,
             balances |-> [i \in 1..Len(toks) |-> <<toks[i], balances[toks[i]].free>>]])

(* State::gen_state_root, user_balances.iter() yielding the users in the   *)
(* order ord                                                                *)
gen_state_root(st, ord) ==
    IF DOMAIN st = {} THEN None
    ELSE LET us == Present(ord, st)
             leaf_hashes == [i \in 1..Len(us) |-> BalancesHash(us[i], st[us[i]])]
             even == IF Len(leaf_hashes) % 2 = 1
                     THEN Append(leaf_hashes, leaf_hashes[Len(leaf_hashes)])
                     ELSE leaf_hashes
         IN Some(MerkleRoot(even))

(* C21: the state root is a function of the balance mapping alone: whatever *)
(* the order in which the users are iterated, the root is the same.         *)
C21_StateRootDeterministic ==
    \A ord1, ord2 \in UserOrders :
       gen_state_root(state, ord1) = gen_state_root(state, ord2)

(* C22: a withdraw takes from the free balance only: it never changes a    *)
(* frozen balance, and when the amount exceeds the free balance of the     *)
(* (user, token) it changes no balance at all, whatever is frozen.         *)
C22_WithdrawTakesFreeOnly ==
    [][n_transfers' = n_transfers + 1 =>
         \A user_id \in Users, token \in Tokens, amount \in DepositAmounts :
            Withdraw(user_id, token, amount) =>
               /\ \A u \in Users, t \in Tokens :
                     Entry(state', u, t).frozen = Entry(state, u, t).frozen
               /\ amount > Entry(state, user_id, token).free =>
                     \A u \in Users, t \in Tokens :
                        Entry(state', u, t) = Entry(state, u, t) ]_vars

(* Two transfers left a total of 1, all of it frozen by an order: at most  *)
(* one of the two was a deposit, the other a withdraw                      *)
C22_Witness ==
    /\ n_transfers = 2
    /\ DOMAIN state = {"u1"}
    /\ DOMAIN state["u1"] = {<<"B">>}
    /\ state["u1"][<<"B">>] = [free |-> 0, frozen |-> 1]

(* C23: cancel_order on a pair without a book fails with pair-not-found,   *)
(* on an order id absent from the pair's order_map with order-not-found;   *)
(* neither changes an order or a balance.                                  *)
C23_UnknownCancelFails ==
    [][ret'.op = "cancel_order" =>
         \A pair_id \in Pairs, order_id \in 1..MaxOrders :
            CancelOrder(pair_id, order_id) =>
               /\ pair_id \notin DOMAIN order_books =>
                     /\ ret'.res = "ErrPairNotFound"
                     /\ UNCHANGED <<state, order_books>>
               /\ (/\ pair_id \in DOMAIN order_books
                   /\ order_id \notin DOMAIN order_books[pair_id].order_map) =>
                     /\ ret'.res = "ErrOrderNotFound"
                     /\ UNCHANGED <<state, order_books>> ]_vars

(* A cancel of an unknown order id was refused by a book that holds an order *)
C23_Witness ==
    /\ ret.op = "cancel_order"
    /\ ret.res = "ErrOrderNotFound"
    /\ BTC_USDT \in DOMAIN order_books
    /\ DOMAIN order_books[BTC_USDT].order_map # {}
    /\ ret.id \notin DOMAIN order_books[BTC_USDT].order_map

(* The orders of a heap that are not cancelled *)
Live(heap, order_map) == {o \in heap : ~is_order_cancelled(order_map, o.id)}

(* C24: get_best_bid returns the highest price among the resting buy orders *)
(* that are not cancelled, get_best_ask the lowest among the sell orders    *)
(* that are not cancelled, and None when there is none.                     *)
C24_BestPriceSkipsCancelled ==
    LET bids == Live(TheBook.buy_orders, TheBook.order_map)
        asks == Live(TheBook.sell_orders, TheBook.order_map)
    IN /\ \A a \in BuyLayouts(TheBook.buy_orders) :
             get_best_bid(TheBook, a) =
                IF bids = {} THEN None
                ELSE Some(CHOOSE p \in {o.price : o \in bids} :
                             \A o \in bids : o.price <= p)
       /\ \A a \in SellLayouts(TheBook.sell_orders) :
             get_best_ask(TheBook, a) =
                IF asks = {} THEN None
                ELSE Some(CHOOSE p \in {o.price : o \in asks} :
                             \A o \in asks : o.price >= p)

(* C25: for the state and the traces a block is built from, the balance    *)
(* changes of the re-execution program are those of create_block: both end *)
(* in the same free and frozen balance of every user and token.  Stated    *)
(* for the blocks of ordinary trades.                                       *)
C25_ReplayEqualsSettlement ==
    [][(builder.pc = "settle" /\ builder'.pc = "root"
          /\ OrdinaryTrades(builder.pending)) =>
          \A user_id \in Users, token \in Tokens :
             Entry(ReplayTraces(state, builder.pending), user_id, token)
                = Entry(state', user_id, token) ]_vars

(* C26: no task acquires the MATCHED_TRACES lock while it holds the STATE  *)
(* lock, nor the STATE lock while it holds the MATCHED_TRACES lock.         *)
C26_NoLockHeldAcrossAcquire ==
    [][\A task \in Tasks :
          /\ task \in locks'.traces \ locks.traces => task \notin locks.state
          /\ task \in locks'.state \ locks.state => task \notin locks.traces ]_vars

(* C27: a reader that obtains n > 0 from get_latest_block_num can retrieve *)
(* block n with get_block.                                                  *)
C27_LatestBlockIsStored ==
    get_latest_block_num > 0 => get_block(db, get_latest_block_num) # None

(* C28: once a block is stored under a number, the value stored under that *)
(* number never changes.                                                    *)
C28_StoredBlocksImmutable ==
    [][\A k \in DOMAIN db.blocks :
          k \in DOMAIN db'.blocks /\ db'.blocks[k] = db.blocks[k] ]_vars

(* C29: every block number from 1 up to the stored latest_block_num has a  *)
(* stored block, in every state of the store, the one between the two      *)
(* inserts of save_block included.                                         *)
C29_PointerNeverDangles ==
    db.latest # None => \A k \in 1..db.latest[1] : get_block(db, k) # None

(* The store between the two inserts of the save of block 2: block 2 is    *)
(* stored, latest_block_num is still 1                                      *)
C29_Witness ==
    /\ db.latest = Some(1)
    /\ DOMAIN db.blocks = {1, 2}

----------------------------------------------------------------------------
(* The i-th trace pushed to MATCHED_TRACES is in a stored block and in     *)
(* neither MATCHED_TRACES nor the builder's pending_traces                 *)
Settled(i) ==
    /\ Len(appended) >= i
    /\ \E k \in DOMAIN db.blocks : \E j \in 1..Len(db.blocks[k].txns) :
          db.blocks[k].txns[j] = appended[i]
    /\ \A j \in 1..Len(traces) : traces[j] # appended[i]
    /\ \A j \in 1..Len(builder.pending) : builder.pending[j] # appended[i]

(* C31: with the builder task scheduled fairly and no failing save, every  *)
(* trace pushed to MATCHED_TRACES is eventually in a stored block and in   *)
(* neither MATCHED_TRACES nor the builder's pending list, and stays so:    *)
(* a trace that is so remains so at every step, and again and again every  *)
(* trace pushed so far is so.                                              *)
C31_TracesReachBlocks ==
    /\ [][\A i \in 1..Len(appended) : Settled(i) => Settled(i)']_vars
    /\ []<>(\A i \in 1..Len(appended) : Settled(i))

(* Two traces of two calls have been stored in two blocks *)
C31_Witness ==
    /\ Len(appended) >= 2
    /\ Settled(1) /\ Settled(2)
    /\ Cardinality(DOMAIN db.blocks) = 2

----------------------------------------------------------------------------
(* C32: Cancelled is terminal.  An order whose status in order_map is      *)
(* Cancelled keeps that status and its filled_amount through every later   *)
(* step, and OrderBook::cancel_order called on it leaves the book as it is. *)
C32_CancelledIsTerminal ==
    /\ [][\A id \in DOMAIN TheBook.order_map :
            Cancelled(TheBook, id) =>
               /\ Cancelled(TheBook', id)
               /\ TheBook'.order_map[id].filled_amount
                     = TheBook.order_map[id].filled_amount
         ]_vars
    /\ [](\A id \in DOMAIN TheBook.order_map :
            Cancelled(TheBook, id) =>
               book_cancel_order(TheBook, id, now).book = TheBook)

(* A partially filled order was cancelled, and a later matching call has   *)
(* popped its heap entry                                                   *)
C32_Witness ==
    \E id \in DOMAIN TheBook.order_map :
       /\ Cancelled(TheBook, id)
       /\ TheBook.order_map[id].filled_amount > 0
       /\ remaining_amount(TheBook.order_map[id]) > 0
       /\ next_id > id + 1
       /\ \A o \in TheBook.buy_orders \cup TheBook.sell_orders : o.id # id

----------------------------------------------------------------------------
RECURSIVE FilledBy(_, _)
(* The sum of matched_amount over the traces of trs that have the order    *)
(* order_id as buy_order or as sell_order                                  *)
FilledBy(trs, order_id) ==
    IF trs = << >> THEN 0
    ELSE (IF order_id \in {trs[1].buy_order.id, trs[1].sell_order.id}
          THEN trs[1].matched_amount ELSE 0) + FilledBy(Tail(trs), order_id)

(* The amount of the order order_id, from a trace that has the order *)
AmountIn(trs, order_id) ==
    LET k == CHOOSE i \in 1..Len(trs) :
                order_id \in {trs[i].buy_order.id, trs[i].sell_order.id}
    IN IF trs[k].buy_order.id = order_id
       THEN trs[k].buy_order.amount ELSE trs[k].sell_order.amount

(* C33: an order's filled_amount never decreases and never exceeds its     *)
(* amount, and it equals the sum of matched_amount over all traces that    *)
(* have the order: for every order of order_map and every entry of the two *)
(* heaps; and for every order of any trace, stored or not, that sum is at  *)
(* most the order's amount.                                                *)
C33_FilledMatchesTraces ==
    /\ [][\A id \in DOMAIN TheBook.order_map :
            /\ id \in DOMAIN TheBook'.order_map
            /\ TheBook'.order_map[id].filled_amount >= TheBook.order_map[id].filled_amount
         ]_vars
    /\ [](\A id \in DOMAIN TheBook.order_map :
            /\ TheBook.order_map[id].filled_amount <= TheBook.order_map[id].amount
            /\ FilledBy(appended, id) = TheBook.order_map[id].filled_amount)
    /\ [](\A o \in TheBook.buy_orders \cup TheBook.sell_orders :
            /\ o.filled_amount <= o.amount
            /\ FilledBy(appended, o.id) = o.filled_amount)
    /\ [](\A id \in 1..next_id :
            FilledBy(appended, id) > 0 => FilledBy(appended, id) <= AmountIn(appended, id))

(* An order of amount 2 has been filled by two traces of two calls *)
C33_Witness ==
    \E id \in DOMAIN TheBook.order_map :
       /\ TheBook.order_map[id].filled_amount = 2
       /\ \E i, j \in 1..Len(appended) :
             /\ i < j
             /\ id \in {appended[i].buy_order.id, appended[i].sell_order.id}
             /\ id \in {appended[j].buy_order.id, appended[j].sell_order.id}
             /\ appended[i].matched_amount = 1
             /\ appended[j].matched_amount = 1

----------------------------------------------------------------------------
(* The two sub_user_balance calls that create_block makes for a trace both *)
(* return true, on the states they are made on                             *)
DebitsSucceed(st, trace) ==
    LET tokens == Split(trace.buy_order.pair_id, "_")
        base_token == tokens[1]
        quote_token == tokens[2]
        s1 == add_user_balance(st, trace.buy_order.user_id, base_token,
                               trace.matched_amount)
        base_debit == sub_user_balance(s1, trace.sell_order.user_id, base_token,
                                       trace.matched_amount)
        quote_debit == sub_user_balance(base_debit.state, trace.buy_order.user_id,
                                        quote_token, trace.matched_amount)
    IN base_debit.ok /\ quote_debit.ok

RECURSIVE AllDebitsSucceed(_, _)
AllDebitsSucceed(st, txns) ==
    IF txns = << >> THEN TRUE
    ELSE /\ DebitsSucceed(st, Head(txns))
         /\ AllDebitsSucceed(SettleTrace(st, Head(txns)), Tail(txns))

(* C34: when create_block settles a block of ordinary trades, every call   *)
(* of sub_user_balance returns true: the seller's free base balance and    *)
(* the buyer's free quote balance cover the amount debited, so that no     *)
(* credit is applied without its debit.                                    *)
C34_SettlementDebitsSucceed ==
    [][(builder.pc = "settle" /\ builder'.pc = "root" /\ OrdinaryTrades(builder.pending))
          => AllDebitsSucceed(state, builder.pending)]_vars

----------------------------------------------------------------------------
(* C35: after every add_order (and cancel_order) call the book is not      *)
(* crossed: no live buy entry (not cancelled, remaining amount > 0) has a  *)
(* price at or above the price of a live sell entry of the same book.      *)
C35_BookNotCrossed ==
    \A buy \in Live(TheBook.buy_orders, TheBook.order_map) :
       \A sell \in Live(TheBook.sell_orders, TheBook.order_map) :
          remaining_amount(buy) > 0 /\ remaining_amount(sell) > 0 => buy.price < sell.price

(* A live buy and a live sell rest side by side after a call that matched *)
C35_Witness ==
    /\ appended # << >>
    /\ \E buy \in Live(TheBook.buy_orders, TheBook.order_map) :
          \E sell \in Live(TheBook.sell_orders, TheBook.order_map) :
             /\ remaining_amount(buy) > 0
             /\ remaining_amount(sell) > 0
             /\ appended[Len(appended)].buy_order.id = next_id
             /\ sell.id = appended[Len(appended)].sell_order.id

----------------------------------------------------------------------------
(* The id of the incoming order of a trace: the later of its two orders *)
Incoming(tr) ==
    IF tr.buy_order.id > tr.sell_order.id THEN tr.buy_order.id ELSE tr.sell_order.id

(* No trace of another call stands between two traces of one call *)
Contiguous(trs) ==
    \A i, j \in 1..Len(trs) :
       (i < j /\ Incoming(trs[i]) = Incoming(trs[j])) =>
          \A m \in i..j : Incoming(trs[m]) = Incoming(trs[i])

Holds(trs, tr) == \E m \in 1..Len(trs) : trs[m] = tr

(* C36: the traces of one add_order call are pushed with no trace of       *)
(* another call between them, and they are never apart: at every moment    *)
(* any two of them are both in MATCHED_TRACES or both out of it, both in   *)
(* the builder's pending list or both out of it, and in the same stored    *)
(* block if in any, again with no other call's trace between them.         *)
C36_CallTracesStayTogether ==
    /\ Contiguous(appended)
    /\ \A k \in DOMAIN db.blocks : Contiguous(db.blocks[k].txns)
    /\ \A i, j \in 1..Len(appended) :
          Incoming(appended[i]) = Incoming(appended[j]) =>
             /\ Holds(traces, appended[i]) <=> Holds(traces, appended[j])
             /\ Holds(builder.pending, appended[i]) <=> Holds(builder.pending, appended[j])
             /\ \A k \in DOMAIN db.blocks :
                   Holds(db.blocks[k].txns, appended[i])
                      <=> Holds(db.blocks[k].txns, appended[j])

(* The two traces of an order that matched two resting orders are in one   *)
(* stored block                                                            *)
C36_Witness ==
    \E k \in DOMAIN db.blocks : \E i, j \in 1..Len(db.blocks[k].txns) :
       /\ i < j
       /\ Incoming(db.blocks[k].txns[i]) = Incoming(db.blocks[k].txns[j])

----------------------------------------------------------------------------
(* The lock a task has asked for and not yet got, "none" if it waits for   *)
(* nothing.  A handler is a task from its first await on.                  *)
Wants(task) ==
    CASE task = "handler" ->
            IF locks.handler.pc = "idle" /\ "handler" \in locks.mempool THEN "state"
            ELSE IF locks.handler.pc = "add" THEN "traces"
            ELSE "none"
      [] task = "canceller" ->
            IF locks.canceller.pc = "state" THEN "state" ELSE "none"
      [] task = "builder" ->
            IF builder.pc = "poll" /\ "builder" \notin locks.traces THEN "traces"
            ELSE IF builder.pc = "create" THEN "block_num"
            ELSE IF builder.pc = "settle" /\ "builder" \notin locks.state THEN "state"
            ELSE IF builder.pc = "root" THEN "state"
            ELSE "none"
      [] OTHER -> "none"

(* The task waits for a lock that some task holds *)
Blocked(task) == Wants(task) # "none" /\ locks[Wants(task)] # {}

(* Every task of D waits for a lock that a task of D holds *)
Deadlocked(D) ==
    /\ D # {}
    /\ \A task \in D : Blocked(task) /\ locks[Wants(task)] \cap D # {}

(* C37: no reachable state has a set of tasks each of which waits for a    *)
(* lock (MEMPOOL, STATE, MATCHED_TRACES, current_block_num) held by a task *)
(* of the set.                                                             *)
C37_NoDeadlock == \A D \in SUBSET AllTasks : ~Deadlocked(D)

(* place_order holds MEMPOOL and STATE and waits for MATCHED_TRACES, which *)
(* the builder holds, while the reader holds current_block_num             *)
C37_Witness ==
    /\ Blocked("handler")
    /\ {"handler"} = locks.state
    /\ {"handler"} = locks.mempool
    /\ {"builder"} = locks.traces
    /\ {"reader"} = locks.block_num

(* What a resting order reserves: the remaining amount of a sell in the   *)
(* base token, the remaining amount times the price of a buy in the quote *)
(* token                                                                  *)
Reservation(order) ==
    IF order.side THEN remaining_amount(order) * order.price ELSE remaining_amount(order)

(* The live resting orders of a user that reserve a token: the orders of  *)
(* order_map that are in a heap and are not Cancelled                     *)
RestingOf(user_id, token) ==
    UNION {{book.order_map[o.id] : o \in
              {r \in book.buy_orders \cup book.sell_orders :
                  /\ r.id \in DOMAIN book.order_map
                  /\ book.order_map[r.id].status # "Cancelled"
                  /\ book.order_map[r.id].user_id = user_id
                  /\ token = IF r.side THEN r.token_b ELSE r.token_a}} :
           book \in {order_books[p] : p \in DOMAIN order_books}}

RECURSIVE ReservedSum(_)
ReservedSum(orders) ==
    IF orders = {} THEN 0
    ELSE LET order == CHOOSE o \in orders : TRUE
         IN Reservation(order) + ReservedSum(orders \ {order})

(* The traces that are matched and not settled: the buffer, and what the  *)
(* builder drained and create_block has not settled yet                   *)
UnsettledTraces ==
    traces \o (IF builder.pc \in {"root", "save"} THEN << >> ELSE builder.pending)

RECURSIVE UnsettledSum(_, _, _)
UnsettledSum(trs, user_id, token) ==
    IF trs = << >> THEN 0
    ELSE LET trace == Head(trs)
         IN (IF trace.buy_order.user_id = user_id /\ trace.buy_order.token_b = token
             THEN trace.matched_amount ELSE 0)
            + (IF trace.sell_order.user_id = user_id /\ trace.sell_order.token_a = token
               THEN trace.matched_amount ELSE 0)
            + UnsettledSum(Tail(trs), user_id, token)

(* C38: for every user and token the frozen balance is at least what the   *)
(* user's live resting orders reserve in the token plus the amounts of the *)
(* user's matched and not yet settled traces; so a cancel_order never      *)
(* releases what another order reserved.                                   *)
C38_ReservationsCoverObligations ==
    \A user_id \in Users, token \in Tokens :
       get_frozen(state, user_id, token)
          >= ReservedSum(RestingOf(user_id, token))
             + UnsettledSum(UnsettledTraces, user_id, token)

(* The trace pairs a buy with a sell of its pair that it crosses, for an  *)
(* amount that both snapshots still had open                              *)
WellFormedTrace(trace) ==
    /\ trace.buy_order.side
    /\ ~trace.sell_order.side
    /\ trace.buy_order.pair_id = trace.sell_order.pair_id
    /\ trace.buy_order.price >= trace.sell_order.price
    /\ trace.matched_amount <= remaining_amount(trace.buy_order)
    /\ trace.matched_amount <= remaining_amount(trace.sell_order)

(* The orders a book holds, in its heaps and in its order_map *)
OrdersOf(book) ==
    book.buy_orders \cup book.sell_orders
       \cup {book.order_map[id] : id \in DOMAIN book.order_map}

(* C39: every MatchedTrace has a buy as buy_order and a sell as            *)
(* sell_order, both of one pair, the buy's price not below the sell's, and *)
(* a matched_amount that is at most the remaining amount of each snapshot; *)
(* a book holds orders of its own pair only, and a call changes no book    *)
(* but the one of the pair of its order and of the traces it appends.      *)
C39_TracesWellFormed ==
    /\ [](\A i \in DOMAIN appended : WellFormedTrace(appended[i]))
    /\ [](\A pair_id \in DOMAIN order_books :
             \A order \in OrdersOf(order_books[pair_id]) : order.pair_id = pair_id)
    /\ [][\A pair_id \in DOMAIN order_books :
             order_books'[pair_id] # order_books[pair_id]
                => /\ \A i \in DOMAIN NewTraces : NewTraces[i].buy_order.pair_id = pair_id
                   /\ \A other \in DOMAIN order_books \ {pair_id} :
                         order_books'[other] = order_books[other]]_vars

(* A buy rests in the book of one pair and a sell that it crosses rests in *)
(* the book of another pair, after a call that matched                     *)
C39_Witness ==
    /\ appended # << >>
    /\ \E p, q \in DOMAIN order_books :
          /\ p # q
          /\ \E buy \in Live(order_books[p].buy_orders, order_books[p].order_map) :
                \E sell \in Live(order_books[q].sell_orders, order_books[q].order_map) :
                   /\ remaining_amount(buy) > 0
                   /\ remaining_amount(sell) > 0
                   /\ buy.price >= sell.price

====
